---- MODULE Spec2Model ----
(***************************************************************************)
(* The agent loop of dinoe (core/src/agent/loop_.rs) with its two          *)
(* collaborators, the tool registry (core/src/agent/registry.rs) and the   *)
(* context builder (core/src/agent/context.rs), as a state machine.        *)
(*                                                                         *)
(* A Rust String is the sequence of its characters, an Option<T> is a      *)
(* sequence of at most one element, a Vec<T> and a VecDeque<T> are         *)
(* sequences.  One process call is split into actions at its await points: *)
(* building the messages, each provider call, each stream event, each tool *)
(* execution (call and return) and the end of a turn with its compaction.  *)
(***************************************************************************)
EXTENDS Integers, Sequences, FiniteSets, TLC

VARIABLES
    streaming,          \* TRUE: process_stream_with_history, FALSE: process_with_history
    max_iterations,     \* AgentLoop.max_iterations
    max_history,        \* AgentLoop.max_history
    provider,           \* AgentLoop.provider: which provider stub answers
    tools,              \* ToolRegistry.tools: the names registered
    history,            \* the history argument of the process call
    context_builder,    \* AgentLoop.context_builder
    message,            \* the message argument of the process call
    messages,           \* the local Vec<ChatMessage> of the process call
    iterations,         \* the local iteration counter
    recent_tool_calls,  \* the local VecDeque<ToolCallSignature>
    full_response,      \* assistant_text / full_response of the current turn
    thinking_content,   \* thinking_content of the current turn (streaming)
    tool_calls,         \* tool_calls of the current turn
    next_call,          \* position of the for loop over tool_calls
    pc,                 \* where the process call stands
    result,             \* the Result<String> the process call returned, if any
    provider_calls,     \* history variable: main-loop provider calls made
    yielded,            \* history variable: what the provider yielded in the last turn
    received,           \* history variable: the tool calls received, turn by turn
    executed,           \* history variable: the calls passed to ToolRegistry::execute,
                        \* turn by turn
    events,             \* history variable: Token and Thinking events consumed
    summarize_outcome,  \* history variable: what the provider answered to the summarize
                        \* call of the compaction just made, until the next turn begins
    thought,            \* history variable: the text of the Thinking events of the
                        \* stream of this turn
    request_tools,      \* history variable: ChatRequest.tools of the turn's request
    recalled,           \* history variable: what memory.recall returned to
                        \* get_memory_context, None when it was not asked
    lock,               \* the Mutex of ToolRegistry.tools: the task holding its guard
    tasks,              \* the tasks sharing the registry, each with its position
    memory_entries,     \* what the Memory behind context_builder.memory holds
    stores,             \* the detached store tasks store_message has spawned
    script,             \* the answers of the scripted provider, turn by turn
    first,              \* history variable: how the first of two equal calls ended
    workspace_skills,   \* the skills directory of the workspace, as the file system
                        \* has it
    skill_registry      \* what SkillRegistry::load_from_workspace returned

config == <<streaming, max_iterations, max_history, provider, tools, context_builder,
            history, message>>
locals == <<messages, iterations, recent_tool_calls, full_response, thinking_content,
            tool_calls, next_call>>
ghosts == <<provider_calls, yielded, received, executed, events, summarize_outcome,
            thought, request_tools, recalled>>
sharing == <<lock, tasks>>
loading == <<workspace_skills, skill_registry>>
outside == <<sharing, memory_entries, script, first, loading>>
conversation == <<locals, pc, result, ghosts, stores, memory_entries, script, first,
                  loading>>
vars == <<config, locals, pc, result, ghosts, stores, outside>>

----------------------------------------------------------------------------
(* Option<T> *)
None == <<>>
Some(x) == <<x>>
is_some(o) == o # <<>>
unwrap(o) == o[1]
unwrap_or_default(o) == IF o = <<>> THEN <<>> ELSE o[1]

(* Result<T, anyhow::Error> *)
Ok(v) == [ok |-> TRUE, val |-> <<v>>, err |-> <<>>]
Err(e) == [ok |-> FALSE, val |-> <<>>, err |-> e]
value_of(r) == r.val[1]

----------------------------------------------------------------------------
(* String literals of the source, character by character. *)

(* two characters that cannot be written in a string of this module: *)
(* U+2014 and the backtick                                            *)
EmDash == "&mdash;"
Backtick == "&grave;"

S_NotFoundPre ==
    <<"T", "o", "o", "l", " ", "'">>
S_NotFoundPost ==
    <<"'", " ", "n", "o", "t", " ", "f", "o", "u", "n", "d">>
S_ExecFailed ==
    <<"E", "x", "e", "c", "u", "t", "i", "o", "n", " ", "f", "a", "i", "l", "e", "d",
      ":", " ">>
S_MaxIter ==
    <<"M", "a", "x", " ", "i", "t", "e", "r", "a", "t", "i", "o", "n", "s", " ", "r",
      "e", "a", "c", "h", "e", "d">>
S_LoopA ==
    <<"T", "o", "o", "l", " ", "l", "o", "o", "p", " ", "d", "e", "t", "e", "c", "t",
      "e", "d", ":", " ", "'">>
S_ParseFail ==
    <<"F", "a", "i", "l", "e", "d", " ", "t", "o", " ", "p", "a", "r", "s", "e", " ",
      "t", "o", "o", "l", " ", "a", "r", "g", "u", "m", "e", "n", "t", "s", " ", "f",
      "o", "r", " ">>
S_Summary ==
    <<"[", "C", "o", "n", "v", "e", "r", "s", "a", "t", "i", "o", "n", " ", "s", "u",
      "m", "m", "a", "r", "y", "]", "\n">>
S_Sep ==
    <<"\n", "\n", "-", "-", "-", "\n", "\n">>
S_True ==
    <<"t", "r", "u", "e">>
S_False ==
    <<"f", "a", "l", "s", "e">>
S_Null ==
    <<"n", "u", "l", "l">>
S_system ==
    <<"s", "y", "s", "t", "e", "m">>
S_assistant ==
    <<"a", "s", "s", "i", "s", "t", "a", "n", "t">>
S_tool ==
    <<"t", "o", "o", "l">>

----------------------------------------------------------------------------
(* Constants of loop_.rs *)
DEFAULT_MAX_HISTORY == 50
COMPACT_KEEP_RECENT == 20
COMPACTION_MAX_SOURCE_CHARS == 12000
COMPACTION_MAX_SUMMARY_CHARS == 2000
LOOP_DETECTION_WINDOW == 5
LOOP_DETECTION_THRESHOLD == 3
THINKING_EXCERPT_BYTES == 200

----------------------------------------------------------------------------
(* str helpers of the standard library, as the loop uses them *)
(* char::len_utf8: the characters outside ASCII that the texts hold take   *)
(* three bytes                                                              *)
len_utf8(c) == IF c = EmDash THEN 3 ELSE 1

(* str::len: the length in bytes *)
str_len(s) == Len(s) + (len_utf8(EmDash) - 1) * Cardinality({i \in 1..Len(s) : s[i] = EmDash})

(* str::is_char_boundary *)
is_char_boundary(s, index) ==
    \E k \in 0..Len(s) : str_len(SubSeq(s, 1, k)) = index

(* &s[..end]: the characters before the byte offset end, which is a        *)
(* character boundary                                                       *)
str_slice_to(s, end) ==
    SubSeq(s, 1, CHOOSE k \in 0..Len(s) : str_len(SubSeq(s, 1, k)) = end)

is_whitespace(c) == c \in {" ", "\n", "\t", "\r"}

RECURSIVE trim_start(_)
trim_start(s) ==
    IF s # <<>> /\ is_whitespace(Head(s)) THEN trim_start(Tail(s)) ELSE s

RECURSIVE trim_end(_)
trim_end(s) ==
    IF s # <<>> /\ is_whitespace(s[Len(s)])
    THEN trim_end(SubSeq(s, 1, Len(s) - 1))
    ELSE s

trim(s) == trim_end(trim_start(s))

LowerCase == <<"a", "b", "c", "d", "e", "f", "g", "h", "i", "j", "k", "l", "m",
               "n", "o", "p", "q", "r", "s", "t", "u", "v", "w", "x", "y", "z">>
UpperCase == <<"A", "B", "C", "D", "E", "F", "G", "H", "I", "J", "K", "L", "M",
               "N", "O", "P", "Q", "R", "S", "T", "U", "V", "W", "X", "Y", "Z">>

char_to_uppercase(c) ==
    IF \E i \in 1..26 : LowerCase[i] = c
    THEN UpperCase[CHOOSE i \in 1..26 : LowerCase[i] = c]
    ELSE c

to_uppercase(s) == [i \in 1..Len(s) |-> char_to_uppercase(s[i])]

DecimalDigits == <<"0", "1", "2", "3", "4", "5", "6", "7", "8", "9">>

RECURSIVE to_decimal(_)
to_decimal(n) ==
    IF n < 10
    THEN <<DecimalDigits[n + 1]>>
    ELSE to_decimal(n \div 10) \o <<DecimalDigits[(n % 10) + 1]>>

(* format!("{:x}", md5::compute(bytes)): the digest is a function of the   *)
(* bytes alone; distinct inputs of the model get distinct digests (no      *)
(* collision is modelled).  The digest of s is written "#" followed by s.  *)
md5_hex(bytes) == <<"#">> \o bytes

(* serde_json's string escaping, for the characters the model uses *)
RECURSIVE json_escape(_)
json_escape(s) ==
    IF s = <<>> THEN <<>>
    ELSE (CASE Head(s) = "\"" -> <<"\\", "\"">>
            [] Head(s) = "\\" -> <<"\\", "\\">>
            [] Head(s) = "\n" -> <<"\\", "n">>
            [] OTHER -> <<Head(s)>>) \o json_escape(Tail(s))

json_string(s) == <<"\"">> \o json_escape(s) \o <<"\"">>

----------------------------------------------------------------------------
(* traits/provider.rs, traits/tool.rs: the data model *)
ChatMessage_system(content) ==
    [role |-> S_system, content |-> content, tool_calls |-> None, tool_call_id |-> None]

ChatMessage_user(content) ==
    LET S_user == <<"u", "s", "e", "r">>
    IN
    [role |-> S_user, content |-> content, tool_calls |-> None, tool_call_id |-> None]

ChatMessage_assistant(content) ==
    [role |-> S_assistant, content |-> content, tool_calls |-> None,
     tool_call_id |-> None]

ChatMessage_assistant_with_tool_calls(content, calls) ==
    [role |-> S_assistant, content |-> content, tool_calls |-> Some(calls),
     tool_call_id |-> None]

ChatMessage_tool_result(id, content) ==
    [role |-> S_tool, content |-> content, tool_calls |-> None,
     tool_call_id |-> Some(id)]

ToolCall(id, name, arguments) == [id |-> id, name |-> name, arguments |-> arguments]

ToolResult_success(output) == [success |-> TRUE, output |-> output, error |-> None]

ToolResult_error(error) == [success |-> FALSE, output |-> <<>>, error |-> Some(error)]

(* serde_json::to_string(&ToolResult): the derived Serialize of the struct *)
ToolResult_to_string(r) ==
    LET S_JsonSuccess == <<"{", "\"", "s", "u", "c", "c", "e", "s", "s", "\"", ":">>
        S_JsonOutput == <<",", "\"", "o", "u", "t", "p", "u", "t", "\"", ":">>
        S_JsonError == <<",", "\"", "e", "r", "r", "o", "r", "\"", ":">>
    IN
    S_JsonSuccess \o (IF r.success THEN S_True ELSE S_False)
    \o S_JsonOutput \o json_string(r.output)
    \o S_JsonError \o (IF is_some(r.error) THEN json_string(unwrap(r.error)) ELSE S_Null)
    \o <<"}">>

has_tool_calls(response) == response.tool_calls # <<>>
S_SerdeError ==
    <<"i", "n", "v", "a", "l", "i", "d", " ", "J", "S", "O", "N">>
S_ParaSep ==
    <<"\n", "\n">>
S_TagToolCallOpen ==
    <<"<", "t", "o", "o", "l", "_", "c", "a", "l", "l">>
S_TagToolCallClose ==
    <<"<", "/", "t", "o", "o", "l", "_", "c", "a", "l", "l">>
S_ColonSpace ==
    <<":", " ">>

----------------------------------------------------------------------------
(* serde_json::Value, serde_json::from_str and serde_json::to_string, for  *)
(* the JSON the inputs of the model use: objects (a BTreeMap: keys unique  *)
(* and sorted), arrays, strings with the escapes of the quote, backslash,  *)
(* slash, n, t and r, integers, true, false, null.                         *)
(* a Value: its kind t, and s (the characters of a string, a number or a   *)
(* boolean), items (the elements of an array), members (the key and value  *)
(* pairs of an object)                                                      *)
JNull == [t |-> "null", s |-> <<>>, items |-> <<>>, members |-> <<>>]
JBool(b) ==
    [t |-> "bool", s |-> IF b THEN S_True ELSE S_False, items |-> <<>>, members |-> <<>>]
JNum(digits) == [t |-> "num", s |-> digits, items |-> <<>>, members |-> <<>>]
JStr(s) == [t |-> "str", s |-> s, items |-> <<>>, members |-> <<>>]
JArr(elems) == [t |-> "arr", s |-> <<>>, items |-> elems, members |-> <<>>]
JObj(members) == [t |-> "obj", s |-> <<>>, items |-> <<>>, members |-> members]

(* the characters of the model in ASCII order *)
Ascii ==
    <<"\t", "\n", "\r", " ", "!", "\"", "#", "$", "%", "&", "'", "(", ")", "*", "+",
      ",", "-", ".", "/", "0", "1", "2", "3", "4", "5", "6", "7", "8", "9", ":", ";",
      "<", "=", ">", "?", "@", "A", "B", "C", "D", "E", "F", "G", "H", "I", "J", "K",
      "L", "M", "N", "O", "P", "Q", "R", "S", "T", "U", "V", "W", "X", "Y", "Z", "[",
      "\\", "]", "^", "_", Backtick, "a", "b", "c", "d", "e", "f", "g", "h", "i", "j", "k",
      "l", "m", "n", "o", "p", "q", "r", "s", "t", "u", "v", "w", "x", "y", "z", "{",
      "|", "}", "~">>

char_rank(c) == CHOOSE i \in 1..Len(Ascii) : Ascii[i] = c

RECURSIVE str_less(_, _)
str_less(a, b) ==
    IF b = <<>> THEN FALSE
    ELSE IF a = <<>> THEN TRUE
    ELSE IF Head(a) = Head(b) THEN str_less(Tail(a), Tail(b))
    ELSE char_rank(Head(a)) < char_rank(Head(b))

(* BTreeMap::insert on the sorted member list: a repeated key is replaced *)
RECURSIVE map_insert(_, _, _)
map_insert(members, key, value) ==
    IF members = <<>> THEN <<<<key, value>>>>
    ELSE IF Head(members)[1] = key THEN <<<<key, value>>>> \o Tail(members)
    ELSE IF str_less(key, Head(members)[1]) THEN <<<<key, value>>>> \o members
    ELSE <<Head(members)>> \o map_insert(Tail(members), key, value)

(* Value::get(key) on an object; None on anything else *)
json_get(value, key) ==
    IF value.t = "obj" /\ \E i \in 1..Len(value.members) : value.members[i][1] = key
    THEN Some(value.members[CHOOSE i \in 1..Len(value.members) :
                                value.members[i][1] = key][2])
    ELSE None

json_as_str(value) == IF value.t = "str" THEN Some(value.s) ELSE None

ParseFail == [ok |-> FALSE, pos |-> 0, val |-> <<>>]
Parsed(pos, val) == [ok |-> TRUE, pos |-> pos, val |-> val]

RECURSIVE skip_ws(_, _)
skip_ws(s, i) ==
    IF i <= Len(s) /\ s[i] \in {" ", "\n", "\t", "\r"} THEN skip_ws(s, i + 1) ELSE i

starts_with_at(s, i, prefix) ==
    /\ i + Len(prefix) - 1 <= Len(s)
    /\ SubSeq(s, i, i + Len(prefix) - 1) = prefix

(* the characters of a string, from after its opening quote *)
RECURSIVE parse_string_body(_, _, _)
parse_string_body(s, i, acc) ==
    IF i > Len(s) THEN ParseFail
    ELSE IF s[i] = "\"" THEN Parsed(i + 1, acc)
    ELSE IF s[i] = "\\" THEN
        IF i + 1 > Len(s) THEN ParseFail
        ELSE IF s[i + 1] \in {"\"", "\\", "/"}
            THEN parse_string_body(s, i + 2, Append(acc, s[i + 1]))
        ELSE IF s[i + 1] = "n" THEN parse_string_body(s, i + 2, Append(acc, "\n"))
        ELSE IF s[i + 1] = "t" THEN parse_string_body(s, i + 2, Append(acc, "\t"))
        ELSE IF s[i + 1] = "r" THEN parse_string_body(s, i + 2, Append(acc, "\r"))
        ELSE ParseFail
    ELSE IF s[i] \in {"\n", "\t", "\r"} THEN ParseFail
    ELSE parse_string_body(s, i + 1, Append(acc, s[i]))

IsDigit(c) == c \in {"0", "1", "2", "3", "4", "5", "6", "7", "8", "9"}

RECURSIVE digits_end(_, _)
digits_end(s, i) == IF i <= Len(s) /\ IsDigit(s[i]) THEN digits_end(s, i + 1) ELSE i

(* an integer: an optional minus, then 0 or a digit run without leading 0 *)
parse_number(s, i) ==
    LET d == IF s[i] = "-" THEN i + 1 ELSE i
        e == digits_end(s, d)
    IN  IF e = d THEN ParseFail
        ELSE IF s[d] = "0" /\ e > d + 1 THEN ParseFail
        ELSE Parsed(e, JNum(SubSeq(s, i, e - 1)))

RECURSIVE parse_value(_, _), parse_members(_, _, _), parse_elements(_, _, _)
parse_value(s, i0) ==
    LET i == skip_ws(s, i0) IN
    IF i > Len(s) THEN ParseFail
    ELSE IF s[i] = "{" THEN
        LET j == skip_ws(s, i + 1) IN
        IF j <= Len(s) /\ s[j] = "}" THEN Parsed(j + 1, JObj(<<>>))
        ELSE parse_members(s, j, <<>>)
    ELSE IF s[i] = "[" THEN
        LET j == skip_ws(s, i + 1) IN
        IF j <= Len(s) /\ s[j] = "]" THEN Parsed(j + 1, JArr(<<>>))
        ELSE parse_elements(s, j, <<>>)
    ELSE IF s[i] = "\"" THEN
        LET r == parse_string_body(s, i + 1, <<>>) IN
        IF r.ok THEN Parsed(r.pos, JStr(r.val)) ELSE ParseFail
    ELSE IF starts_with_at(s, i, S_True) THEN Parsed(i + 4, JBool(TRUE))
    ELSE IF starts_with_at(s, i, S_False) THEN Parsed(i + 5, JBool(FALSE))
    ELSE IF starts_with_at(s, i, S_Null) THEN Parsed(i + 4, JNull)
    ELSE IF s[i] = "-" \/ IsDigit(s[i]) THEN parse_number(s, i)
    ELSE ParseFail

(* the members of an object, from its first key *)
parse_members(s, i, acc) ==
    IF i > Len(s) \/ s[i] # "\"" THEN ParseFail
    ELSE
        LET k == parse_string_body(s, i + 1, <<>>) IN
        IF ~k.ok THEN ParseFail
        ELSE
            LET c == skip_ws(s, k.pos) IN
            IF c > Len(s) \/ s[c] # ":" THEN ParseFail
            ELSE
                LET v == parse_value(s, c + 1) IN
                IF ~v.ok THEN ParseFail
                ELSE
                    LET d == skip_ws(s, v.pos)
                        acc2 == map_insert(acc, k.val, v.val)
                    IN  IF d > Len(s) THEN ParseFail
                        ELSE IF s[d] = "}" THEN Parsed(d + 1, JObj(acc2))
                        ELSE IF s[d] = "," THEN parse_members(s, skip_ws(s, d + 1), acc2)
                        ELSE ParseFail

(* the elements of an array, from its first element *)
parse_elements(s, i, acc) ==
    LET v == parse_value(s, i) IN
    IF ~v.ok THEN ParseFail
    ELSE
        LET d == skip_ws(s, v.pos)
            acc2 == Append(acc, v.val)
        IN  IF d > Len(s) THEN ParseFail
            ELSE IF s[d] = "]" THEN Parsed(d + 1, JArr(acc2))
            ELSE IF s[d] = "," THEN parse_elements(s, d + 1, acc2)
            ELSE ParseFail

(* serde_json::from_str::<Value>: one value, then only whitespace *)
serde_json_from_str(s) ==
    LET r == parse_value(s, 1) IN
    IF r.ok /\ skip_ws(s, r.pos) > Len(s) THEN Ok(r.val) ELSE Err(S_SerdeError)

RECURSIVE serde_json_to_string(_), members_to_string(_), elements_to_string(_)
serde_json_to_string(value) ==
    CASE value.t = "null" -> S_Null
      [] value.t = "bool" -> value.s
      [] value.t = "num" -> value.s
      [] value.t = "str" -> json_string(value.s)
      [] value.t = "arr" -> <<"[">> \o elements_to_string(value.items) \o <<"]">>
      [] value.t = "obj" -> <<"{">> \o members_to_string(value.members) \o <<"}">>

members_to_string(members) ==
    IF members = <<>> THEN <<>>
    ELSE json_string(Head(members)[1]) \o <<":">> \o serde_json_to_string(Head(members)[2])
         \o (IF Len(members) > 1 THEN <<",">> ELSE <<>>) \o members_to_string(Tail(members))

elements_to_string(elems) ==
    IF elems = <<>> THEN <<>>
    ELSE serde_json_to_string(Head(elems))
         \o (IF Len(elems) > 1 THEN <<",">> ELSE <<>>) \o elements_to_string(Tail(elems))

----------------------------------------------------------------------------
(* agent/registry.rs *)

(* ToolRegistry::get: the registry is the set of the registered names *)
ToolRegistry_get(registry, name) == IF name \in registry THEN Some(name) ELSE None

(* an execute that answers for a tool it does not know *)
execute_unknown_succeeds(registry, name, outcome) ==
    IF outcome.ok THEN value_of(outcome) ELSE ToolResult_error(S_ExecFailed \o outcome.err)

(* an execute that hands the tool's failure on without the prefix *)
execute_bare_failure(registry, name, outcome) ==
    IF is_some(ToolRegistry_get(registry, name))
    THEN IF outcome.ok THEN value_of(outcome) ELSE ToolResult_error(outcome.err)
    ELSE ToolResult_error(S_NotFoundPre \o name \o S_NotFoundPost)

(* Tool::spec of the tool registered under a name *)
Tool_spec(name) ==
    [name |-> name, description |-> <<"r", "u", "n", "s", " ">> \o name,
     parameters_schema |-> <<"{", "}">>]

(* ToolRegistry::get_specs: the specs of the values of the HashMap, in no  *)
(* order that the caller can rely on                                       *)
ToolRegistry_get_specs(registry) == {Tool_spec(name) : name \in registry}

(* ChatRequest.tools: None for an empty list of specs *)
ChatRequest_tools(specs) == IF specs = {} THEN None ELSE Some(specs)

(* ToolRegistry::execute; outcome is what the tool's own execute returns *)
ToolRegistry_execute(registry, name, outcome) ==
    IF is_some(ToolRegistry_get(registry, name))
    THEN IF outcome.ok
         THEN value_of(outcome)
         ELSE ToolResult_error(S_ExecFailed \o outcome.err)
    ELSE ToolResult_error(S_NotFoundPre \o name \o S_NotFoundPost)

----------------------------------------------------------------------------
(* agent/loop_.rs: loop detection *)
(* a signature of the tool name alone *)
signature_of_name(tool_call) ==
    [name |-> tool_call.name, args_hash |-> <<>>]

ToolCallSignature_from_tool_call(tool_call) ==
    [name |-> tool_call.name, args_hash |-> md5_hex(tool_call.arguments)]

(* the first for loop of detect_tool_loop *)
RECURSIVE push_signatures(_, _)
push_signatures(recent_calls, calls) ==
    IF calls = <<>> THEN recent_calls
    ELSE
        LET pushed == Append(recent_calls, ToolCallSignature_from_tool_call(Head(calls)))
            kept == IF Len(pushed) > LOOP_DETECTION_WINDOW THEN Tail(pushed) ELSE pushed
        IN  push_signatures(kept, Tail(calls))

loop_message(name, count) ==
    LET S_LoopB == <<"'", " ", "c", "a", "l", "l", "e", "d", " ">>
        S_LoopC ==
            <<" ", "t", "i", "m", "e", "s", " ", "w", "i", "t", "h", " ", "s", "a", "m",
              "e", " ", "a", "r", "g", "u", "m", "e", "n", "t", "s", ".", " ", "T", "h",
              "e", " ", "m", "o", "d", "e", "l", " ", "m", "a", "y", " ", "b", "e", " ",
              "s", "t", "u", "c", "k", ".", " ", "T", "r", "y", " ", "r", "e", "p", "h",
              "r", "a", "s", "i", "n", "g", " ", "y", "o", "u", "r", " ", "r", "e", "q",
              "u", "e", "s", "t", " ", "o", "r", " ", "u", "s", "i", "n", "g", " ", "a",
              " ", "l", "a", "r", "g", "e", "r", " ", "m", "o", "d", "e", "l", ".">>
    IN
    S_LoopA \o name \o S_LoopB \o to_decimal(count) \o S_LoopC

(* a scan that compares the newest LOOP_DETECTION_THRESHOLD signatures only *)
scan_most_recent(recent_calls, i, consecutive_count, last_sig) ==
    LET n == Len(recent_calls) IN
    IF /\ n >= LOOP_DETECTION_THRESHOLD
       /\ \A d \in 1..(LOOP_DETECTION_THRESHOLD - 1) : recent_calls[n - d] = recent_calls[n]
    THEN Some(loop_message(recent_calls[n].name, LOOP_DETECTION_THRESHOLD))
    ELSE None

(* a scan that reports two equal neighbours *)
scan_for_pairs(recent_calls, i, consecutive_count, last_sig) ==
    LET pairs == {k \in 2..Len(recent_calls) : recent_calls[k] = recent_calls[k - 1]}
    IN  IF pairs = {} THEN None
        ELSE Some(loop_message(recent_calls[CHOOSE k \in pairs : TRUE].name, 2))

(* the second for loop of detect_tool_loop, from position i *)
RECURSIVE scan_signatures(_, _, _, _)
scan_signatures(recent_calls, i, consecutive_count, last_sig) ==
    IF i > Len(recent_calls) THEN None
    ELSE
        LET sig == recent_calls[i] IN
        IF is_some(last_sig)
        THEN IF sig = unwrap(last_sig)
             THEN IF consecutive_count + 1 >= LOOP_DETECTION_THRESHOLD
                  THEN Some(loop_message(sig.name, consecutive_count + 1))
                  ELSE scan_signatures(recent_calls, i + 1, consecutive_count + 1,
                                       Some(sig))
             ELSE scan_signatures(recent_calls, i + 1, 1, Some(sig))
        ELSE scan_signatures(recent_calls, i + 1, consecutive_count, Some(sig))

(* detect_tool_loop: the window afterwards and the message, if a loop *)
detect_tool_loop(recent_calls, calls) ==
    LET window == push_signatures(recent_calls, calls) IN
    [recent_calls |-> window, loop |-> scan_signatures(window, 1, 1, None)]

----------------------------------------------------------------------------
(* agent/loop_.rs: history compaction *)
has_system(msgs) == msgs # <<>> /\ msgs[1].role = S_system

non_system_count(msgs) == IF has_system(msgs) THEN Len(msgs) - 1 ELSE Len(msgs)

(* a test that lets one message more pass *)
should_compact_history_late(msgs, maxHistory) == non_system_count(msgs) > maxHistory + 1

should_compact_history(msgs, maxHistory) == non_system_count(msgs) > maxHistory

truncate_transcript(text) ==
    LET S_Ellipsis == <<".", ".", ".">>
    IN
    IF Len(text) <= COMPACTION_MAX_SUMMARY_CHARS THEN text
    ELSE SubSeq(text, 1, COMPACTION_MAX_SUMMARY_CHARS) \o S_Ellipsis

RECURSIVE transcript_lines(_)
transcript_lines(msgs) ==
    IF msgs = <<>> THEN <<>>
    ELSE to_uppercase(Head(msgs).role) \o S_ColonSpace \o trim(Head(msgs).content)
         \o <<"\n">> \o transcript_lines(Tail(msgs))

build_transcript(msgs) ==
    LET transcript == transcript_lines(msgs) IN
    IF Len(transcript) > COMPACTION_MAX_SOURCE_CHARS
    THEN truncate_transcript(transcript)
    ELSE transcript

(* a summarize that takes a missing text for an empty summary *)
summarize_without_fallback(transcript, response) ==
    IF response.ok THEN Ok(unwrap_or_default(value_of(response).text)) ELSE response

(* summarize: response is the outcome of the provider call it makes *)
summarize(transcript, response) ==
    IF response.ok
    THEN Ok(IF is_some(value_of(response).text)
            THEN unwrap(value_of(response).text)
            ELSE truncate_transcript(transcript))
    ELSE response

(* a summary message without the marker line *)
summary_without_marker(summary) == ChatMessage_assistant(trim(summary))

summary_message(summary) == ChatMessage_assistant(S_Summary \o trim(summary))

(* a compaction that puts the summary after the recent messages *)
compact_history_summary_last(msgs, response) ==
    LET start == IF has_system(msgs) THEN 1 ELSE 0
        compact_end == Len(msgs) - COMPACT_KEEP_RECENT
        transcript == build_transcript(SubSeq(msgs, start + 1, compact_end))
        summarized == summarize(transcript, response)
        summary == IF summarized.ok THEN value_of(summarized)
                   ELSE truncate_transcript(transcript)
    IN  IF compact_end <= start THEN msgs
        ELSE SubSeq(msgs, 1, start) \o SubSeq(msgs, compact_end + 1, Len(msgs))
             \o <<summary_message(summary)>>

(* compact_history: the message list afterwards *)
compact_history(msgs, response) ==
    LET start == IF has_system(msgs) THEN 1 ELSE 0
        count == non_system_count(msgs)
        keep_recent == IF COMPACT_KEEP_RECENT < count THEN COMPACT_KEEP_RECENT ELSE count
        compact_count == count - keep_recent
        compact_end == start + compact_count
        to_compact == SubSeq(msgs, start + 1, compact_end)
        transcript == build_transcript(to_compact)
        summarized == summarize(transcript, response)
        summary == IF summarized.ok THEN value_of(summarized)
                   ELSE truncate_transcript(transcript)
        \* let summary = ...: the summary is a value, computed once
        replaced == {SubSeq(msgs, 1, start) \o <<summary_message(s)>>
                     \o SubSeq(msgs, compact_end + 1, Len(msgs)) : s \in {summary}}
    IN  IF compact_count = 0 THEN msgs
        ELSE CHOOSE compacted \in replaced : TRUE

----------------------------------------------------------------------------
(* agent/loop_.rs: the fallback tag parser *)
TOOL_CALL_OPEN_TAGS ==
    LET S_TagFunctionOpen == <<"<", "f", "u", "n", "c", "t", "i", "o", "n", "=">>
        S_TagInvokeOpen == <<"<", "i", "n", "v", "o", "k", "e">>
    IN
    <<S_TagFunctionOpen, S_TagToolCallOpen, S_TagInvokeOpen>>

TOOL_CALL_CLOSE_TAGS ==
    LET S_TagFunctionClose == <<"<", "/", "f", "u", "n", "c", "t", "i", "o", "n", ">">>
        S_TagInvokeClose == <<"<", "/", "i", "n", "v", "o", "k", "e", ">">>
    IN
    <<S_TagFunctionClose, S_TagToolCallClose, S_TagInvokeClose>>

(* str::find: the byte offset of the first occurrence *)
str_find(text, pattern) ==
    LET hits == {i \in 1..(Len(text) - Len(pattern) + 1) :
                    starts_with_at(text, i, pattern)}
    IN  IF hits = {} THEN None
        ELSE Some((CHOOSE i \in hits : \A j \in hits : i <= j) - 1)

(* find_first_tag: (offset, tag) of the earliest tag; min_by_key keeps the *)
(* first of equal offsets *)
find_first_tag(text, tags) ==
    LET found == {k \in 1..Len(tags) : is_some(str_find(text, tags[k]))}
        best == CHOOSE k \in found :
                    \A l \in found :
                        \/ unwrap(str_find(text, tags[k])) < unwrap(str_find(text, tags[l]))
                        \/ /\ unwrap(str_find(text, tags[k])) = unwrap(str_find(text, tags[l]))
                           /\ k <= l
    IN  IF found = {} THEN None
        ELSE Some([idx |-> unwrap(str_find(text, tags[best])), tag |-> tags[best]])

matching_tool_call_close_tag(open_tag) ==
    IF \E k \in 1..Len(TOOL_CALL_OPEN_TAGS) : TOOL_CALL_OPEN_TAGS[k] = open_tag
    THEN LET idx == CHOOSE k \in 1..Len(TOOL_CALL_OPEN_TAGS) :
                        /\ TOOL_CALL_OPEN_TAGS[k] = open_tag
                        /\ \A l \in 1..(k - 1) : TOOL_CALL_OPEN_TAGS[l] # open_tag
         IN  IF idx <= Len(TOOL_CALL_CLOSE_TAGS)
             THEN Some(TOOL_CALL_CLOSE_TAGS[idx])
             ELSE None
    ELSE None

(* one iteration of the for loop of extract_json_values, on character i;   *)
(* st holds the scanner's locals, start an Option of a 1-based position     *)
scan_step(text, i, st) ==
    LET ch == text[i] IN
    IF ch = "{" /\ ~st.in_string
    THEN [st EXCEPT !.depth = @ + 1,
                    !.start = IF st.depth = 0 THEN Some(i) ELSE @]
    ELSE IF ch = "}" /\ ~st.in_string
    THEN IF st.depth - 1 = 0
         THEN LET parsed == IF is_some(st.start)
                            THEN serde_json_from_str(SubSeq(text, unwrap(st.start), i))
                            ELSE Err(<<>>)
              IN  [st EXCEPT !.depth = 0, !.start = None,
                             !.values = IF is_some(st.start) /\ parsed.ok
                                        THEN Append(@, value_of(parsed)) ELSE @]
         ELSE [st EXCEPT !.depth = @ - 1]
    ELSE IF ch = "\"" /\ ~st.escape_next
    THEN [st EXCEPT !.in_string = ~@]
    ELSE IF ch = "\\" /\ st.in_string
    THEN [st EXCEPT !.escape_next = TRUE]
    ELSE [st EXCEPT !.escape_next = FALSE]

(* the for loop over the characters lo..hi, taken in two halves so that    *)
(* long texts are scanned at a small depth of evaluation; the test of the   *)
(* first half makes its evaluation come before that of the second           *)
RECURSIVE scan_json_values(_, _, _, _)
scan_json_values(text, lo, hi, st) ==
    IF lo > hi THEN st
    ELSE IF lo = hi THEN scan_step(text, lo, st)
    ELSE LET mid == (lo + hi) \div 2
             half == scan_json_values(text, lo, mid, st)
         IN  IF half.values = <<>> \/ half.values # <<>>
             THEN scan_json_values(text, mid + 1, hi, half)
             ELSE half

extract_json_values(text) ==
    scan_json_values(text, 1, Len(text),
                     [depth |-> 0, start |-> None, in_string |-> FALSE,
                      escape_next |-> FALSE, values |-> <<>>]).values

(* a parse_tool_call_value whose id also depends on the name of the tool *)
parse_tool_call_value_named(value) ==
    LET S_name == <<"n", "a", "m", "e">>
        S_arguments == <<"a", "r", "g", "u", "m", "e", "n", "t", "s">>
    IN
    LET name == json_get(value, S_name)
        arguments == json_get(value, S_arguments)
    IN  IF name = None \/ json_as_str(unwrap(name)) = None \/ arguments = None
        THEN None
        ELSE LET arguments_str == serde_json_to_string(unwrap(arguments)) IN
             Some(ToolCall(md5_hex(unwrap(json_as_str(unwrap(name))) \o arguments_str),
                           unwrap(json_as_str(unwrap(name))),
                           arguments_str))

(* a parse_tool_call_value that takes the arguments without the delimiters *)
(* of the value                                                             *)
parse_tool_call_value_unwrapped(value) ==
    LET S_CallPrefix == <<"c", "a", "l", "l", "_">>
        S_name == <<"n", "a", "m", "e">>
        S_arguments == <<"a", "r", "g", "u", "m", "e", "n", "t", "s">>
    IN
    LET name == json_get(value, S_name)
        arguments == json_get(value, S_arguments)
    IN  IF name = None \/ json_as_str(unwrap(name)) = None \/ arguments = None
        THEN None
        ELSE LET whole == serde_json_to_string(unwrap(arguments))
                 arguments_str == SubSeq(whole, 2, Len(whole) - 1)
             IN
             Some(ToolCall(S_CallPrefix \o md5_hex(arguments_str),
                           unwrap(json_as_str(unwrap(name))),
                           arguments_str))

parse_tool_call_value(value) ==
    LET S_CallPrefix == <<"c", "a", "l", "l", "_">>
        S_name == <<"n", "a", "m", "e">>
        S_arguments == <<"a", "r", "g", "u", "m", "e", "n", "t", "s">>
    IN
    LET name == json_get(value, S_name)
        arguments == json_get(value, S_arguments)
    IN  IF name = None \/ json_as_str(unwrap(name)) = None \/ arguments = None
        THEN None
        ELSE LET arguments_str == serde_json_to_string(unwrap(arguments)) IN
             Some(ToolCall(S_CallPrefix \o md5_hex(arguments_str),
                           unwrap(json_as_str(unwrap(name))),
                           arguments_str))

RECURSIVE parse_tool_call_values(_)
parse_tool_call_values(values) ==
    IF values = <<>> THEN <<>>
    ELSE parse_tool_call_value(Head(values)) \o parse_tool_call_values(Tail(values))

RECURSIVE join(_, _)
join(parts, sep) ==
    IF parts = <<>> THEN <<>>
    ELSE IF Len(parts) = 1 THEN parts[1]
    ELSE parts[1] \o sep \o join(Tail(parts), sep)

push_trimmed(text_parts, text) ==
    IF trim(text) # <<>> THEN Append(text_parts, trim(text)) ELSE text_parts

(* the while loop of parse_tool_calls_fallback and what follows it *)
RECURSIVE fallback_loop(_, _, _)
fallback_loop(remaining, text_parts, calls) ==
    LET found == find_first_tag(remaining, TOOL_CALL_OPEN_TAGS)
        done(parts) == [text |-> join(push_trimmed(parts, remaining), <<"\n">>),
                        calls |-> calls]
    IN  IF found = None THEN done(text_parts)
        ELSE
            LET start == unwrap(found).idx
                open_tag == unwrap(found).tag
                parts == push_trimmed(text_parts, SubSeq(remaining, 1, start))
                close_tag == matching_tool_call_close_tag(open_tag)
                after_open == SubSeq(remaining, start + Len(open_tag) + 1, Len(remaining))
            IN  IF close_tag = None THEN done(parts)
                ELSE
                    LET close_idx == str_find(after_open, unwrap(close_tag)) IN
                    IF close_idx = None THEN done(parts)
                    ELSE fallback_loop(
                            SubSeq(after_open,
                                   unwrap(close_idx) + Len(unwrap(close_tag)) + 1,
                                   Len(after_open)),
                            parts,
                            calls \o parse_tool_call_values(
                                extract_json_values(
                                    SubSeq(after_open, 1, unwrap(close_idx)))))

parse_tool_calls_fallback(response) == fallback_loop(response, <<>>, <<>>)

----------------------------------------------------------------------------
(* agent/context.rs *)
BOOTSTRAP_MAX_CHARS == 20000

(* MEMORY_MIN_RELEVANCE_SCORE = 0.4; scores are counted in hundredths *)
MEMORY_MIN_RELEVANCE_SCORE == 40

BOOTSTRAP_FILES ==
    LET S_HeaderSoul ==
            <<"#", "#", " ", "A", "g", "e", "n", "t", " ", "I", "d", "e", "n", "t", "i",
              "t", "y", " ", "(", "S", "O", "U", "L", ".", "m", "d", ")">>
        S_HeaderTools ==
            <<"#", "#", " ", "L", "o", "c", "a", "l", " ", "T", "o", "o", "l", " ", "N",
              "o", "t", "e", "s", " ", "(", "T", "O", "O", "L", "S", ".", "m", "d", ")">>
        S_HeaderUser ==
            <<"#", "#", " ", "U", "s", "e", "r", " ", "C", "o", "n", "t", "e", "x", "t",
              " ", "(", "U", "S", "E", "R", ".", "m", "d", ")">>
    IN
    <<S_HeaderSoul, S_HeaderTools, S_HeaderUser>>

(* ContextBuilder::new(workspace); files holds what read_to_string returns *)
(* for each of BOOTSTRAP_FILES, None when the file cannot be read          *)
ContextBuilder_new(workspace) ==
    LET S_Clock ==
            <<"2", "0", "2", "6", "-", "0", "1", "-", "0", "1", " ", "0", "0", ":", "0",
              "0", " ", "(", "T", "h", "u", "r", "s", "d", "a", "y", ")">>
    IN
    [workspace |-> workspace, memory |-> None, skills |-> <<>>, tool_specs |-> <<>>,
     files |-> <<None, None, None>>, clock |-> S_Clock]

(* the notice that follows the first BOOTSTRAP_MAX_CHARS characters *)
truncation_notice ==
    LET S_TruncA ==
            <<"\n", "\n", "[", ".", ".", ".", " ", "t", "r", "u", "n", "c", "a", "t", "e",
              "d", " ", "a", "t", " ">>
        S_TruncB ==
            <<" ", "c", "h", "a", "r", "s", " ", EmDash, " ", "u", "s", "e", " ", "f",
              "i", "l", "e", "_", "r", "e", "a", "d", " ", "f", "o", "r", " ", "f", "u",
              "l", "l", " ", "c", "o", "n", "t", "e", "n", "t", "]", "\n">>
    IN  S_TruncA \o to_decimal(BOOTSTRAP_MAX_CHARS) \o S_TruncB

(* a loop body that measures and cuts the content as it was read *)
bootstrap_section_untrimmed(header, file) ==
    IF file = None \/ trim(unwrap(file)) = <<>> THEN None
    ELSE LET content == IF Len(unwrap(file)) > BOOTSTRAP_MAX_CHARS
                        THEN SubSeq(unwrap(file), 1, BOOTSTRAP_MAX_CHARS)
                             \o truncation_notice
                        ELSE unwrap(file)
         IN  Some(header \o S_ParaSep \o content)

(* the body of the loop of load_bootstrap_files for one file *)
bootstrap_section(header, file) ==
    IF file = None \/ trim(unwrap(file)) = <<>> THEN None
    ELSE LET trimmed == trim(unwrap(file))
             content == IF Len(trimmed) > BOOTSTRAP_MAX_CHARS
                        THEN SubSeq(trimmed, 1, BOOTSTRAP_MAX_CHARS) \o truncation_notice
                        ELSE trimmed
         IN  Some(header \o S_ParaSep \o content)

load_bootstrap_files(cb) ==
    LET parts == bootstrap_section(BOOTSTRAP_FILES[1], cb.files[1])
                 \o bootstrap_section(BOOTSTRAP_FILES[2], cb.files[2])
                 \o bootstrap_section(BOOTSTRAP_FILES[3], cb.files[3])
    IN  IF parts = <<>> THEN None ELSE Some(join(parts, S_Sep))

RECURSIVE tool_entries(_)
tool_entries(specs) ==
    LET S_SpecA == <<"*", "*">>
        S_SpecB == <<"*", "*", ":", " ">>
        S_SpecC ==
            <<"\n", "P", "a", "r", "a", "m", "e", "t", "e", "r", "s", ":", " ", Backtick>>
        S_SpecD == <<Backtick, "\n", "\n">>
    IN
    IF specs = <<>> THEN <<>>
    ELSE S_SpecA \o Head(specs).name \o S_SpecB \o Head(specs).description \o S_SpecC
         \o Head(specs).parameters_schema \o S_SpecD \o tool_entries(Tail(specs))

get_tool_instructions(cb) ==
    LET S_ToolProtocol ==
            <<"#", "#", " ", "T", "o", "o", "l", " ", "U", "s", "e", " ", "P", "r", "o",
              "t", "o", "c", "o", "l", "\n", "\n", "T", "o", " ", "u", "s", "e", " ",
              "a", " ", "t", "o", "o", "l", ",", " ", "w", "r", "a", "p", " ", "a", " ",
              "J", "S", "O", "N", " ", "o", "b", "j", "e", "c", "t", " ", "i", "n", " ",
              "<", "t", "o", "o", "l", "_", "c", "a", "l", "l", ">", " ", "t", "a", "g",
              "s", ":", "\n", "\n", Backtick, Backtick, Backtick, "\n", "<", "t", "o",
              "o", "l", "_", "c", "a", "l", "l", ">", "\n", "{", "\"", "n", "a", "m",
              "e", "\"", ":", " ", "\"", "t", "o", "o", "l", "_", "n", "a", "m", "e",
              "\"", ",", " ", "\"", "a", "r", "g", "u", "m", "e", "n", "t", "s", "\"",
              ":", " ", "{", "\"", "p", "a", "r", "a", "m", "\"", ":", " ", "\"", "v",
              "a", "l", "u", "e", "\"", "}", "}", "\n", "<", "/", "t", "o", "o", "l",
              "_", "c", "a", "l", "l", ">", "\n", Backtick, Backtick, Backtick, "\n",
              "\n", "C", "R", "I", "T", "I", "C", "A", "L", ":", " ", "O", "u", "t",
              "p", "u", "t", " ", "a", "c", "t", "u", "a", "l", " ", "<", "t", "o", "o",
              "l", "_", "c", "a", "l", "l", ">", " ", "t", "a", "g", "s", EmDash, "n",
              "e", "v", "e", "r", " ", "d", "e", "s", "c", "r", "i", "b", "e", " ", "s",
              "t", "e", "p", "s", " ", "o", "r", " ", "g", "i", "v", "e", " ", "e", "x",
              "a", "m", "p", "l", "e", "s", ".", "\n", "\n", "E", "x", "a", "m", "p",
              "l", "e", ":", " ", "U", "s", "e", "r", " ", "s", "a", "y", "s", " ",
              "\"", "w", "h", "a", "t", "'", "s", " ", "t", "h", "e", " ", "d", "a",
              "t", "e", "?", "\"", ".", " ", "Y", "o", "u", " ", "M", "U", "S", "T",
              " ", "r", "e", "s", "p", "o", "n", "d", " ", "w", "i", "t", "h", ":",
              "\n", "<", "t", "o", "o", "l", "_", "c", "a", "l", "l", ">", "\n", "{",
              "\"", "n", "a", "m", "e", "\"", ":", "\"", "s", "h", "e", "l", "l", "\"",
              ",", "\"", "a", "r", "g", "u", "m", "e", "n", "t", "s", "\"", ":", "{",
              "\"", "c", "o", "m", "m", "a", "n", "d", "\"", ":", "\"", "d", "a", "t",
              "e", "\"", "}", "}", "\n", "<", "/", "t", "o", "o", "l", "_", "c", "a",
              "l", "l", ">", "\n", "\n", "Y", "o", "u", " ", "m", "a", "y", " ", "u",
              "s", "e", " ", "m", "u", "l", "t", "i", "p", "l", "e", " ", "t", "o", "o",
              "l", " ", "c", "a", "l", "l", "s", " ", "i", "n", " ", "a", " ", "s", "i",
              "n", "g", "l", "e", " ", "r", "e", "s", "p", "o", "n", "s", "e", ".", " ",
              "A", "f", "t", "e", "r", " ", "t", "o", "o", "l", " ", "e", "x", "e", "c",
              "u", "t", "i", "o", "n", ",", " ", "r", "e", "s", "u", "l", "t", "s", " ",
              "a", "p", "p", "e", "a", "r", " ", "i", "n", " ", "<", "t", "o", "o", "l",
              "_", "r", "e", "s", "u", "l", "t", ">", " ", "t", "a", "g", "s", ".", " ",
              "C", "o", "n", "t", "i", "n", "u", "e", " ", "r", "e", "a", "s", "o", "n",
              "i", "n", "g", " ", "w", "i", "t", "h", " ", "t", "h", "e", " ", "r", "e",
              "s", "u", "l", "t", "s", " ", "u", "n", "t", "i", "l", " ", "y", "o", "u",
              " ", "c", "a", "n", " ", "g", "i", "v", "e", " ", "a", " ", "f", "i", "n",
              "a", "l", " ", "a", "n", "s", "w", "e", "r", ".", "\n", "\n", "#", "#",
              "#", " ", "A", "v", "a", "i", "l", "a", "b", "l", "e", " ", "T", "o", "o",
              "l", "s", "\n", "\n">>
    IN
    IF cb.tool_specs = <<>> THEN <<>>
    ELSE S_ToolProtocol \o tool_entries(cb.tool_specs)

get_runtime_context(cb) ==
    LET S_Runtime1 ==
            <<"#", "#", " ", "R", "u", "n", "t", "i", "m", "e", " ", "C", "o", "n", "t",
              "e", "x", "t", "\n", "\n", "#", "#", "#", " ", "C", "u", "r", "r", "e", "n",
              "t", " ", "T", "i", "m", "e", "\n">>
        S_Runtime2 ==
            <<"\n", "\n", "#", "#", "#", " ", "W", "o", "r", "k", "s", "p", "a", "c", "e",
              "\n">>
    IN
    S_Runtime1 \o cb.clock \o S_Runtime2 \o cb.workspace

RECURSIVE skill_blocks(_, _)
skill_blocks(cb, skills) ==
    LET S_SkillA ==
            <<" ", " ", "<", "s", "k", "i", "l", "l", ">", "\n", " ", " ", " ", " ", "<",
              "n", "a", "m", "e", ">">>
        S_SkillB ==
            <<"<", "/", "n", "a", "m", "e", ">", "\n", " ", " ", " ", " ", "<", "d", "e",
              "s", "c", "r", "i", "p", "t", "i", "o", "n", ">">>
        S_SkillC ==
            <<"<", "/", "d", "e", "s", "c", "r", "i", "p", "t", "i", "o", "n", ">", "\n",
              " ", " ", " ", " ", "<", "l", "o", "c", "a", "t", "i", "o", "n", ">">>
        S_SkillD ==
            <<"<", "/", "l", "o", "c", "a", "t", "i", "o", "n", ">", "\n", " ", " ", "<",
              "/", "s", "k", "i", "l", "l", ">">>
        S_SkillPathA == <<"/", "s", "k", "i", "l", "l", "s", "/">>
        S_SkillPathB == <<"/", "S", "K", "I", "L", "L", ".", "m", "d">>
    IN
    IF skills = <<>> THEN <<>>
    ELSE LET skill == Head(skills)
             location == IF is_some(skill.location) THEN unwrap(skill.location)
                         ELSE cb.workspace \o S_SkillPathA \o skill.name \o S_SkillPathB
         IN  <<S_SkillA \o skill.name \o S_SkillB \o skill.description \o S_SkillC
               \o location \o S_SkillD>> \o skill_blocks(cb, Tail(skills))

get_skills_context(cb) ==
    LET S_SkillsOpen ==
            <<"#", "#", " ", "A", "v", "a", "i", "l", "a", "b", "l", "e", " ", "S", "k",
              "i", "l", "l", "s", "\n", "\n", "<", "a", "v", "a", "i", "l", "a", "b", "l",
              "e", "_", "s", "k", "i", "l", "l", "s", ">">>
        S_SkillsClose ==
            <<"<", "/", "a", "v", "a", "i", "l", "a", "b", "l", "e", "_", "s", "k", "i",
              "l", "l", "s", ">">>
    IN
    IF cb.skills = <<>> THEN None
    ELSE Some(join(<<S_SkillsOpen>> \o skill_blocks(cb, cb.skills) \o <<S_SkillsClose>>,
                   <<"\n">>))

(* a filter that keeps the scores above the minimum only *)
RECURSIVE relevant_entries_above(_)
relevant_entries_above(entries) ==
    IF entries = <<>> THEN <<>>
    ELSE (IF Head(entries).score = None
             \/ unwrap(Head(entries).score) > MEMORY_MIN_RELEVANCE_SCORE
          THEN <<Head(entries)>> ELSE <<>>) \o relevant_entries_above(Tail(entries))

RECURSIVE relevant_entries(_)
relevant_entries(entries) ==
    IF entries = <<>> THEN <<>>
    ELSE (IF Head(entries).score = None
             \/ unwrap(Head(entries).score) >= MEMORY_MIN_RELEVANCE_SCORE
          THEN <<Head(entries)>> ELSE <<>>) \o relevant_entries(Tail(entries))

RECURSIVE memory_bullets(_)
memory_bullets(entries) ==
    LET S_Bullet == <<"-", " ">>
    IN
    IF entries = <<>> THEN <<>>
    ELSE (IF Head(entries).content # <<>>
          THEN <<S_Bullet \o Head(entries).content>> ELSE <<>>)
         \o memory_bullets(Tail(entries))

(* get_memory_context: recall is what memory.recall(user_message, 5, None) *)
(* returns                                                                 *)
get_memory_context(cb, recall) ==
    LET S_MemoryHeader ==
            <<"#", "#", " ", "R", "e", "l", "e", "v", "a", "n", "t", " ", "M", "e", "m",
              "o", "r", "y">>
    IN
    IF cb.memory = None THEN None
    ELSE LET relevant == IF recall.ok THEN relevant_entries(value_of(recall)) ELSE <<>>
             context_parts == IF relevant # <<>>
                              THEN <<S_MemoryHeader>> \o memory_bullets(relevant)
                              ELSE <<>>
         IN  IF context_parts # <<>> THEN Some(join(context_parts, S_ParaSep)) ELSE None

build_system_prompt(cb, recall) ==
    join(load_bootstrap_files(cb)
         \o <<get_tool_instructions(cb)>>
         \o <<get_runtime_context(cb)>>
         \o get_skills_context(cb)
         \o get_memory_context(cb, recall),
         S_Sep)

(* a build_messages that puts the current message before the history *)
build_messages_history_last(cb, hist, current_message, recall) ==
    <<ChatMessage_system(build_system_prompt(cb, recall))>>
    \o <<ChatMessage_user(current_message)>>
    \o hist

build_messages(cb, hist, current_message, recall) ==
    <<ChatMessage_system(build_system_prompt(cb, recall))>>
    \o hist
    \o <<ChatMessage_user(current_message)>>

----------------------------------------------------------------------------
(* Bounds of the model *)
MaxIterations == 2      \* max_iterations ranges over 0..MaxIterations
MaxCalls == 3           \* tool calls a provider stub issues in one process call
MaxEvents == 2          \* Token and Thinking events of one process call
LoopMaxCalls == 6       \* tool calls the repeating provider issues in one process call
HistorySlack == 3       \* histories of COMPACT_KEEP_RECENT - HistorySlack messages and more
MaxTasks == 2           \* tasks that share one ToolRegistry
MaxScript == 2          \* turns the scripted provider's script holds
MaxHistory == 3         \* messages of a history the caller hands to build_messages
MaxRecalled == 2        \* entries a recall of the scoring memory returns
MaxEntries == 2         \* entries of the skills directory
MaxOps == 2             \* registry operations the tasks start, all together

----------------------------------------------------------------------------
(* The collaborators: tools, provider stubs, histories *)
T_hi == <<"h", "i">>
T_hm == <<"h", "m">>
T_ok == <<"o", "k">>
T_blank == <<" ">>
T_boom == <<"b", "o", "o", "m">>
T_down == <<"d", "o", "w", "n">>
T_sum == <<" ", "s", "u", "m", " ">>
N_sh == <<"s", "h">>
N_echo == <<"e", "c", "h", "o">>
N_nope == <<"n", "o", "p", "e">>
A_empty == <<"{", "}">>
A_one == <<"{", "\"", "a", "\"", ":", "1", "}">>
A_bad == <<"{">>

(* a tagged response as the tool-use protocol asks for it *)
T_tagged_call ==
    S_TagToolCallOpen \o <<">", "\n">>
    \o <<"{", "\"", "n", "a", "m", "e", "\"", ":", "\"", "s", "h", "\"", ",",
         "\"", "a", "r", "g", "u", "m", "e", "n", "t", "s", "\"", ":", "{", "}", "}">>
    \o <<"\n">> \o S_TagToolCallClose \o <<">">>

T_tagged == <<"g", "o", " ">> \o T_tagged_call

CallOk == ToolCall(<<"c", "1">>, N_sh, A_empty)
CallUnknown == ToolCall(<<"c", "2">>, N_nope, A_empty)
CallBad == ToolCall(<<"c", "3">>, N_sh, A_bad)
CallA == ToolCall(<<"a">>, N_echo, A_empty)
CallB == ToolCall(<<"b">>, N_echo, A_one)

Registry == {N_sh, N_echo}

(* what a tool's execute may return: sh may fail, echo does not *)
ToolExecuteOutcomes(name) ==
    IF name = N_sh THEN {Ok(ToolResult_success(T_ok)), Err(T_boom)}
    ELSE {Ok(ToolResult_success(T_ok))}

(* the answers a script is made of: tool calls without text, tool calls    *)
(* with text after some thinking, and plain text with whitespace around it  *)
ScriptTurns ==
    {[text |-> None, tool_calls |-> <<CallA>>, thinking |-> <<>>],
     [text |-> Some(T_hi), tool_calls |-> <<CallA, CallUnknown>>, thinking |-> T_hm],
     [text |-> Some(T_hi), tool_calls |-> <<>>, thinking |-> T_hm],
     [text |-> Some(T_hi \o T_blank), tool_calls |-> <<>>, thinking |-> <<>>]}

(* the n-th answer of the scripted provider; after its script, plain text *)
ScriptedTurn(n) ==
    IF n <= Len(script) THEN script[n]
    ELSE [text |-> Some(T_hi), tool_calls |-> <<>>, thinking |-> <<>>]

(* the tool calls a provider stub may issue next *)
ProviderCalls(p) ==
    CASE p = "general" -> {CallOk, CallUnknown, CallBad}
      [] p = "repeat" -> {CallA, CallB}
      [] p = "brief" -> {CallA, CallUnknown}
      [] p = "tagged" -> {CallA}
      [] p = "plain" -> {CallA}
      [] p = "pondering" -> {CallA}
      [] p = "script" ->
            LET calls == ScriptedTurn(provider_calls).tool_calls
            IN  IF Len(tool_calls) < Len(calls) THEN {calls[Len(tool_calls) + 1]} ELSE {}

CallBudget(p) ==
    CASE p = "repeat" -> LoopMaxCalls
      [] p = "script" -> 2 * (MaxScript + 1)
      [] p = "brief" -> MaxCalls - 1
      [] OTHER -> MaxCalls

(* the Token and Thinking events a provider stub emits in one process call *)
EventBudget(p) ==
    CASE p = "general" -> MaxEvents
      [] p = "script" -> 3 * (MaxScript + 1)
      [] OTHER -> MaxEvents - 1

(* a response text with tool calls in tags: the JSON values of each block *)
(* between the open tag and the close tag of its kind                       *)
RECURSIVE TaggedText(_)
TaggedText(blocks) ==
    IF blocks = <<>> THEN <<>>
    ELSE LET block == Head(blocks) IN
         TOOL_CALL_OPEN_TAGS[block.tag] \o <<">", "\n">>
         \o join(block.values, <<"\n">>) \o <<"\n">>
         \o TOOL_CALL_CLOSE_TAGS[block.tag]
         \o (IF block.tag = 2 THEN <<">">> ELSE <<>>)
         \o TaggedText(Tail(blocks))

(* the JSON values the tagged provider writes: two tools, and the same     *)
(* arguments spelled with and without white space                           *)
TaggedValues ==
    LET A_spaced == <<"{", " ", "\"", "a", "\"", " ", ":", " ", "1", " ", "}">>
        value(name, arguments) ==
            <<"{", "\"", "n", "a", "m", "e", "\"", ":", "\"">> \o name
            \o <<"\"", ",", "\"", "a", "r", "g", "u", "m", "e", "n", "t", "s", "\"", ":">>
            \o arguments \o <<"}">>
    IN  {value(name, arguments) : name \in {N_sh, N_echo},
                                  arguments \in {A_empty, A_one, A_spaced}}

(* one call after some text or none, in either kind of tag; two calls in   *)
(* one block; two calls in two blocks of different kinds                    *)
TaggedTexts ==
    {prefix \o TaggedText(<<[tag |-> k, values |-> <<v>>]>>) :
        prefix \in {<<>>, <<"g", "o", " ">>}, k \in {2, 3}, v \in TaggedValues}
    \cup {TaggedText(<<[tag |-> 2, values |-> <<v, w>>]>>) :
            v \in TaggedValues, w \in TaggedValues}
    \cup {TaggedText(<<[tag |-> 2, values |-> <<v>>], [tag |-> 3, values |-> <<w>>]>>) :
            v \in TaggedValues, w \in TaggedValues}

(* calls whose argument is a string that holds a brace, an escaped quote,  *)
(* or an escaped backslash at its end, alone or before a second call        *)
StringValues ==
    LET value(string) ==
            <<"{", "\"", "n", "a", "m", "e", "\"", ":", "\"", "s", "h", "\"", ",",
              "\"", "a", "r", "g", "u", "m", "e", "n", "t", "s", "\"", ":",
              "{", "\"", "a", "\"", ":", "\"">> \o string \o <<"\"", "}", "}">>
    IN  {value(<<"{">>), value(<<"}">>), value(<<"x", "\\", "\"", "y">>),
         value(<<"x", "\\", "\\">>)}

StringTexts ==
    {TaggedText(<<[tag |-> 3, values |-> <<v>> \o rest]>>) :
        v \in StringValues,
        rest \in {<<>>, <<CHOOSE w \in TaggedValues : TRUE>>}}

(* a call in an opening tag that is never closed, after some text or none *)
UnclosedTexts ==
    {prefix \o TOOL_CALL_OPEN_TAGS[k] \o <<">", "\n">> \o v :
        prefix \in {<<>>, <<"g", "o", " ">>}, k \in {2, 3}, v \in TaggedValues}

(* one call in the tool_call tags that the system prompt prescribes,      *)
(* between texts that have no tag, of which either may be blank or empty    *)
ToolCallTexts ==
    {before \o T_tagged_call \o after :
        before \in {<<>>, <<" ">>, <<"g", "o", " ">>},
        after \in {<<>>, <<" ">>, <<" ", "o", "k">>}}

(* a call on a line of its own after a line that holds closing braces     *)
(* without an opening one                                                   *)
UnbalancedTexts ==
    {TaggedText(<<[tag |-> k, values |-> <<stray, CHOOSE v \in TaggedValues : TRUE>>]>>) :
        k \in {2, 3}, stray \in {<<"}">>, <<"o", "k", "}">>, <<"}", "}">>}}

ProviderTexts(p) ==
    CASE p = "general" -> {None, Some(<<>>), Some(T_blank), Some(T_hi), Some(T_tagged)}
      [] p = "tagged" -> {Some(text) : text \in TaggedTexts \cup UnclosedTexts \cup StringTexts
                                                \cup ToolCallTexts \cup UnbalancedTexts}
      [] OTHER -> {Some(T_hi)}

(* the non-empty sequences over S of length at most n *)
SeqsUpTo(S, n) == UNION {[1..k -> S] : k \in 1..n}

(* Provider::chat: a transport error, a text-only response, or structured *)
(* tool calls, at most budget of them                                      *)
ChatOutcomes(p, budget) ==
    IF p = "script"
    THEN {Ok([text |-> ScriptedTurn(provider_calls + 1).text,
              tool_calls |-> ScriptedTurn(provider_calls + 1).tool_calls])}
    ELSE
    (IF p = "general" THEN {Err(T_down)} ELSE {})
    \cup {Ok([text |-> t, tool_calls |-> <<>>]) : t \in ProviderTexts(p)}
    \cup {Ok([text |-> t, tool_calls |-> c]) :
            t \in (IF p = "general" THEN {None, Some(T_hi)} ELSE {None}),
            c \in SeqsUpTo(ProviderCalls(p), budget)}

(* Provider::chat as summarize calls it *)
SummarizeOutcomes(p) ==
    IF p = "script" THEN {Ok([text |-> Some(T_sum), tool_calls |-> <<>>])}
    ELSE
    {Err(T_down), Ok([text |-> None, tool_calls |-> <<>>]),
     Ok([text |-> Some(T_sum), tool_calls |-> <<>>]),
     Ok([text |-> Some(T_blank), tool_calls |-> <<>>])}

(* Provider::chat_stream: whether the stream opens *)
StreamOutcomes(p) == IF p = "general" THEN {Ok(<<>>), Err(T_down)} ELSE {Ok(<<>>)}

(* ProviderEvent::Token and ProviderEvent::Thinking payloads *)
(* the scripted provider streams the text of its answer in one or two     *)
(* tokens, after the thinking if there is any                               *)
TokenTexts(p) ==
    CASE p = "general" -> {<<>>, T_hi}
      [] p = "script" ->
            LET text == unwrap_or_default(ScriptedTurn(provider_calls).text)
                rest == SubSeq(text, Len(full_response) + 1, Len(text))
            IN  IF rest = <<>> THEN {}
                ELSE IF full_response = <<>> THEN {rest, <<Head(rest)>>} ELSE {rest}
      [] OTHER -> {T_hi}
(* thinking of about 200 bytes, in ASCII only and with a dash of three     *)
(* bytes before, across and after byte 200                                  *)
LongThoughts ==
    LET ascii(n) == [i \in 1..n |-> "a"]
        before == THINKING_EXCERPT_BYTES - len_utf8(EmDash)
    IN  {ascii(THINKING_EXCERPT_BYTES), ascii(THINKING_EXCERPT_BYTES + 1)}
        \cup {ascii(n) \o <<EmDash>> \o T_hm : n \in (before - 1)..(before + 3)}

ThinkingTexts(p) ==
    IF p = "script"
    THEN IF full_response = <<>> /\ thinking_content = <<>>
         THEN {ScriptedTurn(provider_calls).thinking} \ {<<>>} ELSE {}
    ELSE IF p = "pondering" THEN LongThoughts \cup {T_hm, <<EmDash>>}
    ELSE {T_hm}

(* whether the stream may end here: the scripted provider ends it after   *)
(* the whole answer                                                         *)
StreamEnds(p) ==
    p = "script" =>
        /\ full_response = unwrap_or_default(ScriptedTurn(provider_calls).text)
        /\ tool_calls = ScriptedTurn(provider_calls).tool_calls

(* a well-formed history: question, tool call, its result, answer, repeated *)
HistoryCycle ==
    <<ChatMessage_user(<<"q">>),
      ChatMessage_assistant_with_tool_calls(<<>>, <<CallOk>>),
      ChatMessage_tool_result(CallOk.id, ToolResult_to_string(ToolResult_success(T_ok))),
      ChatMessage_assistant(<<"a">>)>>

WellFormedHistory(n) == [i \in 1..n |-> HistoryCycle[((i - 1) % 4) + 1]]

(* a history whose first question is longer than a summary may be *)
LongHistory ==
    [WellFormedHistory(COMPACT_KEEP_RECENT - 1) EXCEPT
        ![1] = ChatMessage_user([i \in 1..(COMPACTION_MAX_SUMMARY_CHARS + 1) |-> "q"])]

(* a history whose first question is longer than a transcript may be *)
HugeHistory ==
    [WellFormedHistory(COMPACT_KEEP_RECENT - 1) EXCEPT
        ![1] = ChatMessage_user([i \in 1..(COMPACTION_MAX_SOURCE_CHARS + 1) |-> "q"])]

RECURSIVE Flatten(_)
Flatten(batches) ==
    IF batches = <<>> THEN <<>> ELSE Head(batches) \o Flatten(Tail(batches))

----------------------------------------------------------------------------
(* The process call *)
NoResult == None

(* a task that has not called the registry *)
IdleTask ==
    [pc |-> "idle", op |-> "none", name |-> <<>>, found |-> None, inside |-> FALSE,
     started |-> 0, overlapped |-> FALSE, callbacks |-> 0, result |-> None]

(* ContextBuilder::new(workspace).with_memory(memory), or without memory *)
Builder(memory) ==
    LET S_Workspace == <<"/", "w", "s">>
    IN
    [ContextBuilder_new(S_Workspace) EXCEPT !.memory = memory]

InitAgent(providers, histories, currents, maxHistories, maxIterationss, builders, scripts) ==
    /\ streaming \in BOOLEAN
    /\ memory_entries = <<>>
    /\ stores = <<>>
    /\ script \in scripts
    /\ first = None
    /\ lock = None
    /\ tasks = [t \in 1..MaxTasks |-> IdleTask]
    /\ max_iterations \in maxIterationss
    /\ max_history \in maxHistories
    /\ provider \in providers
    /\ tools = Registry
    /\ context_builder \in builders
    /\ history \in histories
    /\ message \in currents
    /\ messages = <<>>
    /\ iterations = 0
    /\ recent_tool_calls = <<>>
    /\ full_response = <<>>
    /\ thinking_content = <<>>
    /\ tool_calls = <<>>
    /\ next_call = 1
    /\ pc = "ready"
    /\ result = NoResult
    /\ provider_calls = 0
    /\ yielded = None
    /\ received = <<>>
    /\ executed = <<>>
    /\ events = 0
    /\ summarize_outcome = None
    /\ thought = <<>>
    /\ request_tools = None
    /\ recalled = None

(* an agent of a workspace without a skills directory *)
InitFull(providers, histories, currents, maxHistories, maxIterationss, builders, scripts) ==
    /\ InitAgent(providers, histories, currents, maxHistories, maxIterationss, builders,
                 scripts)
    /\ workspace_skills = None
    /\ skill_registry = None

(* a call without memory and without a script *)
InitWith(providers, histories, maxHistories, maxIterationss) ==
    InitFull(providers, histories, {T_hi}, maxHistories, maxIterationss, {Builder(None)},
             {<<>>})

(* the default configuration, any answer of the general provider *)
Init == InitWith({"general"}, {<<>>}, {DEFAULT_MAX_HISTORY}, 0..MaxIterations)

(* a provider that repeats tool calls, many of them in one turn *)
InitLoop == InitWith({"repeat"}, {<<>>}, {DEFAULT_MAX_HISTORY}, 1..MaxIterations)

(* histories long enough for compaction, under several values of max_history *)
InitCompact ==
    InitWith({"brief"},
             {WellFormedHistory(n) :
                n \in {0, DEFAULT_MAX_HISTORY - 2}
                      \cup (COMPACT_KEEP_RECENT - HistorySlack)..COMPACT_KEEP_RECENT}
             \cup {LongHistory, HugeHistory},
             {0, COMPACT_KEEP_RECENT, DEFAULT_MAX_HISTORY},
             1..MaxIterations)

(* a store_message that also stores blank content *)
store_message_of_any_content(cb, pending, role, content) ==
    LET S_msg == <<"m", "s", "g", "_">>
    IN
    IF cb.memory = None THEN pending
    ELSE Append(pending, [key |-> S_msg \o role \o <<"_">> \o md5_hex(content),
                          content |-> content, status |-> "pending"])

(* AgentLoop::store_message: with a memory configured and a non-blank      *)
(* content, a store task is spawned and dropped; pending is the tasks       *)
(* spawned so far                                                           *)
store_message(cb, pending, role, content) ==
    LET S_msg == <<"m", "s", "g", "_">>
    IN
    IF cb.memory = None \/ trim(content) = <<>> THEN pending
    ELSE Append(pending, [key |-> S_msg \o role \o <<"_">> \o md5_hex(content),
                          content |-> content, status |-> "pending"])

(* Memory::store as the interface describes it: the content is kept under  *)
(* its key                                                                  *)
memory_store(entries, key, content) ==
    IF \E i \in DOMAIN entries : entries[i].key = key
    THEN [i \in DOMAIN entries |->
            IF entries[i].key = key THEN [entries[i] EXCEPT !.content = content]
            ELSE entries[i]]
    ELSE Append(entries, [key |-> key, content |-> content, score |-> None])

(* Memory::recall as the interface describes it: keyword recall, the        *)
(* entries whose content holds the query, in order, at most limit of them   *)
RECURSIVE memory_recall(_, _, _)
memory_recall(entries, query, limit) ==
    IF entries = <<>> \/ limit = 0 THEN <<>>
    ELSE IF is_some(str_find(Head(entries).content, query))
         THEN <<Head(entries)>> \o memory_recall(Tail(entries), query, limit - 1)
         ELSE memory_recall(Tail(entries), query, limit)

(* process_with_history / process_stream_with_history: store_message of   *)
(* the user message, which does not wait for the store                      *)
Start ==
    LET S_user == <<"u", "s", "e", "r">>
    IN
    /\ pc = "ready"
    /\ stores' = store_message(context_builder, stores, S_user, message)
    /\ pc' = "build"
    /\ UNCHANGED <<config, outside, locals, result, ghosts>>

(* the entries a memory that scores its entries may recall: scores in      *)
(* hundredths, absent, at, above and below MEMORY_MIN_RELEVANCE_SCORE, and  *)
(* an entry without content                                                 *)
ScoredEntries ==
    {[key |-> <<"k">>, content |-> T_hi, score |-> None],
     [key |-> <<"k">>, content |-> T_ok, score |-> Some(MEMORY_MIN_RELEVANCE_SCORE)],
     [key |-> <<"k">>, content |-> T_hm, score |-> Some(MEMORY_MIN_RELEVANCE_SCORE - 1)],
     [key |-> <<"k">>, content |-> <<>>, score |-> Some(MEMORY_MIN_RELEVANCE_SCORE + 1)]}

(* what memory.recall(user_message, 5, None) returns: the keyword recall   *)
(* of the markdown memory, or any answer of a memory that scores            *)
RecallOutcomes(cb, entries, query) ==
    IF cb.memory = Some("scored")
    THEN {Err(T_down), Ok(<<>>)}
         \cup {Ok(es) : es \in UNION {[1..k -> ScoredEntries] : k \in 1..MaxRecalled}}
    ELSE {Ok(memory_recall(entries, query, 5))}

(* a call whose window is kept in the AgentLoop from one call to the next *)
BuildMessages_with_shared_window ==
    /\ pc = "build"
    /\ \E recall \in RecallOutcomes(context_builder, memory_entries, message) :
        /\ messages' = build_messages(context_builder, history, message, recall)
        /\ recalled' = IF context_builder.memory = None THEN None ELSE Some(recall)
    /\ iterations' = 0
    /\ recent_tool_calls' = IF first = None THEN <<>>
                          ELSE push_signatures(<<>>, Flatten(unwrap(first).executed))
    /\ pc' = "loop"
    /\ UNCHANGED <<config, outside, stores, full_response, thinking_content, tool_calls,
                   next_call, result, provider_calls, yielded, received, executed,
                   events, summarize_outcome, thought, request_tools>>

(* build_messages, with the recall of get_memory_context, and the locals   *)
(* of the loop                                                              *)
BuildMessages ==
    /\ pc = "build"
    /\ \E recall \in RecallOutcomes(context_builder, memory_entries, message) :
        /\ messages' = build_messages(context_builder, history, message, recall)
        /\ recalled' = IF context_builder.memory = None THEN None ELSE Some(recall)
    /\ iterations' = 0
    /\ recent_tool_calls' = <<>>
    /\ pc' = "loop"
    /\ UNCHANGED <<config, outside, stores, full_response, thinking_content, tool_calls,
                   next_call, result, provider_calls, yielded, received, executed,
                   events, summarize_outcome, thought, request_tools>>

(* a detached store task ends: Memory::store returns Ok or Err, and the    *)
(* error is logged                                                          *)
StoreCompletes ==
    \E i \in DOMAIN stores : \E stored \in BOOLEAN :
        /\ stores[i].status = "pending"
        /\ stores' = [stores EXCEPT ![i].status = IF stored THEN "stored" ELSE "failed"]
        /\ memory_entries' = IF stored
                             THEN memory_store(memory_entries, stores[i].key,
                                               stores[i].content)
                             ELSE memory_entries
        /\ UNCHANGED <<config, locals, pc, result, ghosts, sharing, script, first,
                     loading>>

(* a loop that runs once more than max_iterations *)
while_condition_inclusive(iters, maxIterations) == iters <= maxIterations

(* the condition of the while loop *)
while_condition(iters, maxIterations) == iters < maxIterations

(* whether &thinking_content[..200] panics: the content is longer than 200 *)
(* bytes and byte 200 is inside a character                                 *)
thinking_excerpt_panics(thinking) ==
    /\ str_len(thinking) > THINKING_EXCERPT_BYTES
    /\ ~is_char_boundary(thinking, THINKING_EXCERPT_BYTES)

(* the excerpt of the thinking content in the incomplete-response text *)
thinking_excerpt(thinking) ==
    IF str_len(thinking) > THINKING_EXCERPT_BYTES
    THEN str_slice_to(thinking, THINKING_EXCERPT_BYTES)
    ELSE thinking

(* a turn that pushes the assistant message before it looks for a loop *)
tool_turn_messages_pushed_first(msgs, text, calls, loop) ==
    Append(msgs, ChatMessage_assistant_with_tool_calls(text, calls))

(* the message list of a turn with tool calls after loop detection and the *)
(* push of the assistant message: the bail leaves the list as it was        *)
tool_turn_messages(msgs, text, calls, loop) ==
    IF is_some(loop) THEN msgs
    ELSE Append(msgs, ChatMessage_assistant_with_tool_calls(text, calls))

(* the loop body from the interpreted response to tool dispatch: lines     *)
(* 319-341 and 226-255                                                      *)
Interpret(text, thinking, calls) ==
    LET S_Empty ==
            <<"E", "m", "p", "t", "y", " ", "r", "e", "s", "p", "o", "n", "s", "e", " ",
              "f", "r", "o", "m", " ", "m", "o", "d", "e", "l", ".", " ", "P", "l", "e",
              "a", "s", "e", " ", "t", "r", "y", " ", "a", "g", "a", "i", "n", ".">>
        S_ThinkA ==
            <<"I", " ", "w", "a", "s", " ", "t", "h", "i", "n", "k", "i", "n", "g", ":",
              " ">>
        S_ThinkB ==
            <<".", ".", ".", " ", "b", "u", "t", " ", "d", "i", "d", "n", "'", "t", " ",
              "c", "o", "m", "p", "l", "e", "t", "e", " ", "m", "y", " ", "r", "e", "s",
              "p", "o", "n", "s", "e", ".", " ", "P", "l", "e", "a", "s", "e", " ", "t",
              "r", "y", " ", "a", "g", "a", "i", "n", ".">>
    IN
    LET detected == detect_tool_loop(recent_tool_calls, calls)
        \* the slice of the thinking content is taken and panics
        panics == /\ calls = <<>> /\ text = <<>> /\ streaming /\ thinking # <<>>
                  /\ thinking_excerpt_panics(thinking)
    IN
    /\ full_response' = text
    /\ thinking_content' = thinking
    /\ received' = IF calls = <<>> THEN received ELSE Append(received, calls)
    /\ next_call' = 1
    /\ IF calls = <<>>
       THEN /\ pc' = IF panics THEN "panicked" ELSE "done"
            /\ tool_calls' = <<>>
            /\ recent_tool_calls' = recent_tool_calls
            /\ executed' = executed
            /\ IF text # <<>>
               THEN /\ messages' = Append(messages, ChatMessage_assistant(text))
                    /\ stores' = store_message(context_builder, stores, S_assistant, text)
                    /\ result' = Some(Ok(text))
               ELSE /\ messages' = messages
                    /\ stores' = stores
                    /\ result' = IF panics THEN NoResult
                                 ELSE IF streaming /\ thinking # <<>>
                                 THEN Some(Ok(S_ThinkA \o thinking_excerpt(thinking)
                                              \o S_ThinkB))
                                 ELSE Some(Err(S_Empty))
       ELSE /\ recent_tool_calls' = detected.recent_calls
            /\ tool_calls' = calls
            /\ IF is_some(detected.loop)
               THEN /\ pc' = "done"
                    /\ result' = Some(Err(unwrap(detected.loop)))
                    /\ messages' = tool_turn_messages(messages, text, calls, detected.loop)
                    /\ executed' = executed
                    /\ stores' = stores
               ELSE /\ pc' = "dispatch"
                    /\ result' = result
                    /\ messages' = tool_turn_messages(messages, text, calls, detected.loop)
                    /\ executed' = Append(executed, <<>>)
                    /\ stores' = IF trim(text) # <<>>
                                 THEN store_message(context_builder, stores, S_assistant,
                                                    text)
                                 ELSE stores

(* one iteration of process_with_history up to tool dispatch *)
Chat ==
    LET S_NoResp ==
            <<"N", "o", " ", "r", "e", "s", "p", "o", "n", "s", "e", " ", "f", "r", "o",
              "m", " ", "p", "r", "o", "v", "i", "d", "e", "r">>
    IN
    /\ pc = "loop"
    /\ ~streaming
    /\ while_condition(iterations, max_iterations)
    /\ iterations' = iterations + 1
    /\ provider_calls' = provider_calls + 1
    /\ summarize_outcome' = None
    /\ thought' = <<>>
    /\ request_tools' = ChatRequest_tools(ToolRegistry_get_specs(tools))
    /\ recalled' = recalled
    /\ \E response \in ChatOutcomes(provider,
                                    CallBudget(provider) - Len(Flatten(received))) :
        IF ~response.ok
        THEN /\ pc' = "done"
             /\ result' = Some(response)
             /\ UNCHANGED <<messages, recent_tool_calls, full_response, thinking_content,
                            tool_calls, next_call, yielded, received, executed, stores>>
        ELSE /\ yielded' = Some([text |-> value_of(response).text,
                                 tool_calls |-> value_of(response).tool_calls,
                                 thinking |-> <<>>])
             /\ IF has_tool_calls(value_of(response))
                THEN Interpret(unwrap_or_default(value_of(response).text), <<>>,
                               value_of(response).tool_calls)
                ELSE IF is_some(value_of(response).text)
                THEN LET parsed == parse_tool_calls_fallback(
                                        unwrap(value_of(response).text))
                     IN  Interpret(parsed.text, <<>>, parsed.calls)
                ELSE /\ pc' = "done"
                     /\ result' = Some(Ok(S_NoResp))
                     /\ UNCHANGED <<messages, recent_tool_calls, full_response,
                                    thinking_content, tool_calls, next_call, received,
                                    executed, stores>>
    /\ UNCHANGED <<config, outside, events>>

(* one iteration of process_stream_with_history up to the stream *)
OpenStream ==
    /\ pc = "loop"
    /\ streaming
    /\ while_condition(iterations, max_iterations)
    /\ iterations' = iterations + 1
    /\ provider_calls' = provider_calls + 1
    /\ summarize_outcome' = None
    /\ thought' = <<>>
    /\ request_tools' = ChatRequest_tools(ToolRegistry_get_specs(tools))
    /\ recalled' = recalled
    /\ \E stream \in StreamOutcomes(provider) :
        IF stream.ok
        THEN /\ pc' = "stream"
             /\ result' = result
        ELSE /\ pc' = "done"
             /\ result' = Some(stream)
    /\ full_response' = <<>>
    /\ thinking_content' = <<>>
    /\ tool_calls' = <<>>
    /\ UNCHANGED <<config, outside, stores, messages, recent_tool_calls, next_call,
                   yielded, received,
                   executed, events>>

(* ProviderEvent::Token *)
StreamToken ==
    /\ pc = "stream"
    /\ events < EventBudget(provider)
    /\ \E token \in TokenTexts(provider) :
        /\ full_response' = full_response \o token
        /\ thinking_content' = <<>>
    /\ events' = events + 1
    /\ UNCHANGED <<config, outside, summarize_outcome, thought, request_tools, recalled, stores, messages, iterations,
                   recent_tool_calls, tool_calls, next_call,
                   pc, result, provider_calls, yielded, received, executed>>

(* ProviderEvent::Thinking *)
StreamThinking ==
    /\ pc = "stream"
    /\ events < EventBudget(provider)
    /\ \E thinking \in ThinkingTexts(provider) :
        /\ thinking_content' = thinking_content \o thinking
        /\ thought' = thought \o thinking
    /\ events' = events + 1
    /\ UNCHANGED <<config, outside, summarize_outcome, request_tools, recalled, stores,
                   messages,
                   iterations, recent_tool_calls, full_response,
                   tool_calls, next_call, pc, result, provider_calls, yielded, received,
                   executed>>

(* ProviderEvent::ToolCall *)
StreamToolCall ==
    /\ pc = "stream"
    /\ Len(Flatten(received)) + Len(tool_calls) < CallBudget(provider)
    /\ \E tool_call \in ProviderCalls(provider) :
        tool_calls' = Append(tool_calls, tool_call)
    /\ UNCHANGED <<config, outside, stores, messages, iterations, recent_tool_calls, full_response,
                   thinking_content, next_call, pc, result, ghosts>>

(* an end of the stream that forgets the text of a turn with tool calls *)
StreamDoneWithoutText ==
    /\ pc = "stream"
    /\ StreamEnds(provider)
    /\ yielded' = Some([text |-> IF full_response = <<>> THEN None
                                 ELSE Some(full_response),
                        tool_calls |-> tool_calls,
                        thinking |-> thinking_content])
    /\ Interpret(IF tool_calls = <<>> THEN full_response ELSE <<>>, thinking_content,
                 tool_calls)
    /\ UNCHANGED <<config, outside, summarize_outcome, thought, request_tools, recalled, iterations,
                   provider_calls, events>>

(* ProviderEvent::Done or the end of the stream, and the rest of the       *)
(* iteration up to tool dispatch                                            *)
StreamDone ==
    /\ pc = "stream"
    /\ StreamEnds(provider)
    /\ yielded' = Some([text |-> IF full_response = <<>> THEN None
                                 ELSE Some(full_response),
                        tool_calls |-> tool_calls,
                        thinking |-> thinking_content])
    /\ Interpret(full_response, thinking_content, tool_calls)
    /\ UNCHANGED <<config, outside, summarize_outcome, thought, request_tools, recalled, iterations, provider_calls, events>>

(* a dispatch that executes a call whatever its arguments *)
ExecuteCallUnparsed ==
    /\ pc = "dispatch"
    /\ next_call <= Len(tool_calls)
    /\ pc' = "executing"
    /\ executed' = [executed EXCEPT ![Len(executed)] = Append(@, tool_calls[next_call])]
    /\ UNCHANGED <<config, outside, summarize_outcome, thought, request_tools, recalled, stores, locals, result,
                   provider_calls, yielded, received, events>>

(* the head of the for loop over tool_calls: the arguments are parsed and  *)
(* ToolRegistry::execute is called                                          *)
ExecuteCall ==
    /\ pc = "dispatch"
    /\ next_call <= Len(tool_calls)
    /\ LET tool_call == tool_calls[next_call]
           args == serde_json_from_str(tool_call.arguments)
       IN  IF args.ok
           THEN /\ pc' = "executing"
                /\ executed' = [executed EXCEPT ![Len(executed)] = Append(@, tool_call)]
                /\ result' = result
           ELSE /\ pc' = "done"
                /\ executed' = executed
                /\ result' = Some(Err(S_ParseFail \o tool_call.name \o S_ColonSpace
                                      \o args.err))
    /\ UNCHANGED <<config, outside, summarize_outcome, thought, request_tools, recalled, stores, locals, provider_calls,
                   yielded, received, events>>

(* a tool message keyed to the name of the tool *)
push_tool_result_by_name(msgs, tool_call, tool_result) ==
    Append(msgs, ChatMessage_tool_result(tool_call.name,
                                         ToolResult_to_string(tool_result)))

(* messages.push(ChatMessage::tool_result(tool_call.id, to_string(&result))) *)
push_tool_result(msgs, tool_call, tool_result) ==
    Append(msgs, ChatMessage_tool_result(tool_call.id, ToolResult_to_string(tool_result)))

(* ToolRegistry::execute returns and the tool message is pushed *)
ToolReturns ==
    /\ pc = "executing"
    /\ LET tool_call == tool_calls[next_call] IN
       \E outcome \in ToolExecuteOutcomes(tool_call.name) :
        messages' = push_tool_result(messages, tool_call,
                        ToolRegistry_execute(tools, tool_call.name, outcome))
    /\ next_call' = next_call + 1
    /\ pc' = "dispatch"
    /\ UNCHANGED <<config, outside, stores, iterations, recent_tool_calls, full_response,
                   thinking_content, tool_calls, result, ghosts>>

(* an end of turn that compacts again and again while the test asks for it *)
EndTurn_compacting_again ==
    /\ pc = "dispatch"
    /\ next_call > Len(tool_calls)
    /\ IF should_compact_history(messages, max_history)
       THEN \E response \in SummarizeOutcomes(provider) :
                /\ messages' = compact_history(messages, response)
                /\ summarize_outcome' = IF non_system_count(messages) > COMPACT_KEEP_RECENT
                                 THEN Some(response) ELSE None
                /\ pc' = "dispatch"
       ELSE /\ messages' = messages
            /\ summarize_outcome' = None
            /\ pc' = "loop"
    /\ UNCHANGED <<config, outside, stores, iterations, recent_tool_calls, full_response,
                   thinking_content, tool_calls, next_call, result, provider_calls,
                   yielded, received, executed, events,
                   thought, request_tools, recalled>>

(* the end of the iteration: should_compact_history and compact_history *)
EndTurn ==
    /\ pc = "dispatch"
    /\ next_call > Len(tool_calls)
    /\ IF should_compact_history(messages, max_history)
       THEN \E response \in SummarizeOutcomes(provider) :
                /\ messages' = compact_history(messages, response)
                /\ summarize_outcome' = IF non_system_count(messages) > COMPACT_KEEP_RECENT
                                 THEN Some(response) ELSE None
       ELSE /\ messages' = messages
            /\ summarize_outcome' = None
    /\ pc' = "loop"
    /\ UNCHANGED <<config, outside, stores, iterations, recent_tool_calls, full_response,
                   thinking_content, tool_calls, next_call, result, provider_calls,
                   yielded, received, executed, events,
                   thought, request_tools, recalled>>

(* the while condition fails: Ok("Max iterations reached") *)
MaxIterationsReached ==
    /\ pc = "loop"
    /\ ~while_condition(iterations, max_iterations)
    /\ pc' = "done"
    /\ result' = Some(Ok(S_MaxIter))
    /\ summarize_outcome' = None
    /\ UNCHANGED <<config, outside, stores, locals, provider_calls, yielded, received,
                   executed, events, thought, request_tools, recalled>>

Next ==
    \/ Start
    \/ BuildMessages
    \/ Chat
    \/ OpenStream
    \/ StreamToken
    \/ StreamThinking
    \/ StreamToolCall
    \/ StreamDone
    \/ ExecuteCall
    \/ ToolReturns
    \/ EndTurn
    \/ MaxIterationsReached

Spec == Init /\ [][Next]_vars

(* the same call is made once more, on either path, with the memory as it  *)
(* was before the first                                                     *)
SecondRun ==
    /\ provider = "script"
    /\ pc = "done"
    /\ first = None
    /\ first' = Some([streaming |-> streaming, messages |-> messages, result |-> result,
                      executed |-> executed])
    /\ streaming' \in BOOLEAN
    /\ messages' = <<>>
    /\ iterations' = 0
    /\ recent_tool_calls' = <<>>
    /\ full_response' = <<>>
    /\ thinking_content' = <<>>
    /\ tool_calls' = <<>>
    /\ next_call' = 1
    /\ pc' = "ready"
    /\ result' = NoResult
    /\ provider_calls' = 0
    /\ yielded' = None
    /\ received' = <<>>
    /\ executed' = <<>>
    /\ events' = 0
    /\ summarize_outcome' = None
    /\ thought' = <<>>
    /\ request_tools' = None
    /\ recalled' = None
    /\ stores' = <<>>
    /\ memory_entries' = <<>>
    /\ UNCHANGED <<max_iterations, max_history, provider, tools, context_builder, history,
                   message, sharing, script, loading>>

NextTwice ==
    \/ Next
    \/ StoreCompletes
    \/ SecondRun

(* a scripted provider, with and without a memory, a history one message   *)
(* short of compaction                                                      *)
InitTwice ==
    InitFull({"script"}, {WellFormedHistory(COMPACT_KEEP_RECENT - 1)}, {T_hi},
             {COMPACT_KEEP_RECENT}, {MaxIterations},
             {Builder(None), Builder(Some("markdown"))}, {<<>>} \cup SeqsUpTo(ScriptTurns, MaxScript))

SpecTwice == InitTwice /\ [][NextTwice]_vars

(* scripts that also hold turns of blank text, with and without a tool     *)
(* call, for a message that may be blank                                    *)
InitStores ==
    LET BlankTurns ==
            {[text |-> Some(T_blank), tool_calls |-> <<CallA>>, thinking |-> <<>>],
             [text |-> Some(T_blank), tool_calls |-> <<>>, thinking |-> <<>>]}
    IN
    InitFull({"script"}, {WellFormedHistory(COMPACT_KEEP_RECENT - 1)}, {T_hi, T_blank},
             {COMPACT_KEEP_RECENT}, {MaxIterations},
             {Builder(None), Builder(Some("markdown"))},
             {<<>>} \cup SeqsUpTo(ScriptTurns \cup BlankTurns, MaxScript))

SpecStores == InitStores /\ [][NextTwice]_vars

SpecLoop == InitLoop /\ [][Next]_vars

(* a provider that streams long thinking *)
InitPondering == InitWith({"pondering"}, {<<>>}, {DEFAULT_MAX_HISTORY}, 1..MaxIterations)

SpecPondering == InitPondering /\ [][Next]_vars

SpecCompact == InitCompact /\ [][Next]_vars

(* calls with histories at the edge of compaction when every provider      *)
(* call, tool execution and recall returns and the task of the call is      *)
(* polled: each step that stays possible is taken                           *)
InitReturning ==
    InitWith({"brief"},
             {WellFormedHistory(n) :
                n \in (COMPACT_KEEP_RECENT - HistorySlack)..COMPACT_KEEP_RECENT},
             {0, COMPACT_KEEP_RECENT},
             1..MaxIterations)

SpecReturning ==
    /\ InitReturning
    /\ [][Next]_vars
    /\ WF_vars(Start) /\ WF_vars(BuildMessages)
    /\ WF_vars(Chat) /\ WF_vars(OpenStream)
    /\ WF_vars(StreamToken) /\ WF_vars(StreamThinking)
    /\ WF_vars(StreamToolCall) /\ WF_vars(StreamDone)
    /\ WF_vars(ExecuteCall) /\ WF_vars(ToolReturns)
    /\ WF_vars(EndTurn) /\ WF_vars(MaxIterationsReached)

(* one turn of a provider that writes its tool calls in tags *)
(* the histories and current messages of the callers: an empty history,    *)
(* earlier turns, a history that brings its own system message; an empty,   *)
(* a plain and a padded current message                                     *)
CallerHistories ==
    {<<>>, WellFormedHistory(MaxHistory),
     <<ChatMessage_system(T_ok)>> \o WellFormedHistory(MaxHistory - 1)}

CallerMessages == {<<>>, T_hi, T_hi \o T_blank}

InitTagged ==
    InitFull({"tagged"}, CallerHistories, CallerMessages, {DEFAULT_MAX_HISTORY}, {1},
             {Builder(None)}, {<<>>})

SpecTagged == InitTagged /\ [][Next]_vars

(* the prompt of the context builder: bootstrap files of every size about *)
(* BOOTSTRAP_MAX_CHARS, tool specs as cli/src/main.rs takes them from the  *)
(* registry or none, a skill or none, and a memory that scores its entries *)
Filler(n) == [i \in 1..n |-> "q"]

BootstrapContents ==
    LET S_Soul == <<"s", "o", "u", "l">>
    IN  {None, Some(<<>>), Some(T_blank), Some(S_Soul),
         Some(<<" ">> \o S_Soul \o <<"\n">>),
         Some(Filler(BOOTSTRAP_MAX_CHARS)),
         Some(Filler(BOOTSTRAP_MAX_CHARS + 1)),
         Some(Filler(BOOTSTRAP_MAX_CHARS) \o <<"\n">>),
         Some(<<"\n">> \o Filler(BOOTSTRAP_MAX_CHARS + 1))}

(* get_specs of the registry as it is when main builds the context: the   *)
(* values of a HashMap, in either order                                    *)
ToolSpecLists ==
    {<<Tool_spec(N_sh), Tool_spec(N_echo)>>, <<Tool_spec(N_echo), Tool_spec(N_sh)>>}

ContextBuilders ==
    LET S_User == <<"u", "s", "e", "r">>
        skill == [name |-> <<"g", "i", "t">>, description |-> <<"v", "c", "s">>,
                  location |-> None]
    IN  {[Builder(None) EXCEPT !.files = <<f, None, None>>] : f \in BootstrapContents}
        \cup {[Builder(None) EXCEPT !.files = <<f, None, Some(S_User)>>,
                                    !.tool_specs = specs, !.skills = skills] :
                f \in {None, Some(S_User)},
                specs \in {<<>>} \cup ToolSpecLists,
                skills \in {<<>>, <<skill>>}}
        \cup {[Builder(Some("scored")) EXCEPT !.tool_specs = specs] :
                specs \in {<<>>} \cup ToolSpecLists}

InitContext ==
    InitFull({"plain"}, {<<>>}, {T_hi}, {DEFAULT_MAX_HISTORY}, {1}, ContextBuilders,
             {<<>>})

(* ToolRegistry::register called by another holder of the Arc of the      *)
(* registry, after the ContextBuilder took its tool specs                   *)
RegisterTool ==
    /\ provider = "plain"
    /\ N_nope \notin tools
    /\ tools' = tools \cup {N_nope}
    /\ UNCHANGED <<streaming, max_iterations, max_history, provider, context_builder,
                   history, message, conversation, sharing>>

NextContext == Next \/ RegisterTool

SpecContext == InitContext /\ [][NextContext]_vars

----------------------------------------------------------------------------
(* agent/registry.rs under concurrency: tasks that share one ToolRegistry. *)
(* tools.lock() blocks while another guard is alive; a guard is a local of  *)
(* register, get and get_specs and is dropped when they return.             *)

Tasks == 1..MaxTasks

(* the operations the tasks start: N_nope is unknown until it is registered *)
SharedOps == {<<"register", N_nope>>, <<"get_specs", <<>>>>,
              <<"execute", N_echo>>, <<"execute", N_nope>>}

(* a guard that get keeps alive until the tool's execute has returned *)
guard_kept_by_execute(t, op) == IF op = "execute" THEN Some(t) ELSE None

(* the guard at the return of register, get and get_specs: dropped *)
guard_at_return(t, op) == None

RECURSIVE operations_started(_, _)
operations_started(ts, n) ==
    IF n = 0 THEN 0 ELSE ts[n].started + operations_started(ts, n - 1)

(* a task calls register, get_specs or execute and reaches tools.lock() *)
RegistryCall(t) ==
    /\ provider = "shared"
    /\ tasks[t].pc = "idle"
    /\ operations_started(tasks, MaxTasks) < MaxOps
    /\ \E call \in SharedOps :
        tasks' = [tasks EXCEPT ![t] =
                    [@ EXCEPT !.pc = "lock", !.op = call[1], !.name = call[2],
                              !.found = None, !.inside = FALSE, !.started = @ + 1,
                              !.callbacks = 0, !.result = None,
                              !.overlapped = \E u \in Tasks \ {t} :
                                                 tasks[u].pc = "running"]]
    /\ UNCHANGED <<config, conversation, lock>>

(* tools.lock().unwrap() returns the guard: the Mutex is free *)
RegistryLock(t) ==
    /\ tasks[t].pc = "lock"
    /\ lock = None
    /\ lock' = Some(t)
    /\ tasks' = [tasks EXCEPT ![t].pc = "locked"]
    /\ UNCHANGED <<config, conversation>>

(* the body under the guard (insert, get(name).cloned(), values().map(spec)) *)
(* and the return; execute goes on to tool.execute(args) when it found the  *)
(* tool; a call made inside a tool's execute returns into that execute      *)
RegistryUnlock(t) ==
    /\ tasks[t].pc = "locked"
    /\ lock = Some(t)
    /\ LET task == tasks[t]
           found == ToolRegistry_get(tools, task.name)
           S_Specs == <<"s", "p", "e", "c", "s">>
           returned ==
               IF task.inside
               THEN [task EXCEPT !.pc = "running", !.inside = FALSE,
                                 !.callbacks = @ + 1]
               ELSE CASE task.op = "register" ->
                           [task EXCEPT !.pc = "idle", !.result = Some(ToolResult_success(<<>>))]
                      [] task.op = "get_specs" ->
                           [task EXCEPT !.pc = "idle",
                                        !.result = Some(ToolResult_success(S_Specs))]
                      [] task.op = "execute" ->
                           IF is_some(found)
                           THEN [task EXCEPT !.pc = "running", !.found = found]
                           ELSE [task EXCEPT !.pc = "idle",
                                     !.result = Some(ToolRegistry_execute(tools, task.name,
                                                         Err(<<>>)))]
       IN /\ tasks' = [tasks EXCEPT ![t] = returned]
          /\ tools' = IF task.op = "register" /\ ~task.inside
                      THEN tools \cup {task.name} ELSE tools
          /\ lock' = guard_at_return(t, IF task.inside THEN "get_specs" ELSE task.op)
    /\ UNCHANGED <<streaming, max_iterations, max_history, provider, context_builder,
                   history, message, conversation>>

(* the running tool calls back into the registry (get_specs) *)
ToolCallsBack(t) ==
    /\ tasks[t].pc = "running"
    /\ tasks[t].callbacks = 0
    /\ tasks' = [tasks EXCEPT ![t] = [@ EXCEPT !.pc = "lock", !.inside = TRUE]]
    /\ UNCHANGED <<config, conversation, lock>>

(* tool.execute(args).await returns; it need not *)
ToolExecuteReturns(t) ==
    /\ tasks[t].pc = "running"
    /\ LET task == tasks[t] IN
       \E outcome \in ToolExecuteOutcomes(task.name) :
        tasks' = [tasks EXCEPT ![t] =
                    [task EXCEPT !.pc = "idle",
                                 !.result = Some(ToolRegistry_execute({unwrap(task.found)},
                                                     task.name, outcome))]]
    /\ UNCHANGED <<config, conversation, lock>>

NextShared ==
    \E t \in Tasks :
        \/ RegistryCall(t)
        \/ RegistryLock(t)
        \/ RegistryUnlock(t)
        \/ ToolCallsBack(t)
        \/ ToolExecuteReturns(t)

InitShared == InitWith({"shared"}, {<<>>}, {DEFAULT_MAX_HISTORY}, {0}) /\ ~streaming

(* a blocked lock() returns once the Mutex stays free, and the code under a *)
(* guard runs to its return; nothing makes a tool's execute return          *)
SpecShared ==
    /\ InitShared
    /\ [][NextShared]_vars
    /\ \A t \in Tasks : WF_vars(RegistryLock(t)) /\ WF_vars(RegistryUnlock(t))

----------------------------------------------------------------------------
(* skills/manifest.rs and skills/registry.rs *)

Nul == "&nul;"

S_SkillMd == <<"S", "K", "I", "L", "L", ".", "m", "d">>

default_version == <<"0", ".", "1", ".", "0">>

(* str::contains for a character *)
contains_char(s, c) == \E i \in 1..Len(s) : s[i] = c

(* str::lines: the pieces between line feeds, without the carriage return  *)
(* that ends a piece and without an empty piece after the last line feed    *)
RECURSIVE str_lines(_)
str_lines(s) ==
    LET nl == str_find(s, <<"\n">>)
        piece == IF nl = None THEN s ELSE SubSeq(s, 1, unwrap(nl))
        line == IF piece # <<>> /\ piece[Len(piece)] = "\r"
                THEN SubSeq(piece, 1, Len(piece) - 1) ELSE piece
    IN  IF s = <<>> THEN <<>>
        ELSE IF nl = None THEN <<line>>
        ELSE <<line>> \o str_lines(SubSeq(s, unwrap(nl) + 2, Len(s)))

(* the position of the first element that satisfies the test of            *)
(* Iterator::position, counted from 0                                      *)
position_of_rule(lines) ==
    LET hits == {k \in 1..Len(lines) : trim(lines[k]) = <<"-", "-", "-">>}
    IN  IF hits = {} THEN None
        ELSE Some((CHOOSE k \in hits : \A j \in hits : k <= j) - 1)

(* serde_yaml::from_str::<FrontMatter> on a block of lines of the form     *)
(* key: value with plain values: name and description are required, the    *)
(* version has a default, other keys are ignored; a line of another form   *)
(* or a key given twice is an error                                        *)
yaml_front_matter(lines) ==
    LET S_name == <<"n", "a", "m", "e">>
        S_description == <<"d", "e", "s", "c", "r", "i", "p", "t", "i", "o", "n">>
        S_version == <<"v", "e", "r", "s", "i", "o", "n">>
        colon(line) == str_find(line, <<":", " ">>)
        key(line) == SubSeq(line, 1, unwrap(colon(line)))
        value(line) == trim(SubSeq(line, unwrap(colon(line)) + 3, Len(line)))
        of(k) == {i \in 1..Len(lines) : key(lines[i]) = k}
        the(k) == value(lines[CHOOSE i \in of(k) : TRUE])
    IN  IF \E i \in 1..Len(lines) : colon(lines[i]) = None \/ value(lines[i]) = <<>>
        THEN Err(<<>>)
        ELSE IF \E i, j \in 1..Len(lines) : i # j /\ key(lines[i]) = key(lines[j])
        THEN Err(<<>>)
        ELSE IF of(S_name) = {} \/ of(S_description) = {} THEN Err(<<>>)
        ELSE Ok([name |-> the(S_name), description |-> the(S_description),
                 version |-> IF of(S_version) = {} THEN default_version
                             ELSE the(S_version)])

RECURSIVE trim_start_matches(_, _)
trim_start_matches(s, c) ==
    IF s # <<>> /\ Head(s) = c THEN trim_start_matches(Tail(s), c) ELSE s

(* load_skill_md: file is what read_to_string(path) returns *)
load_skill_md(path, file) ==
    LET S_Unnamed == <<"u", "n", "n", "a", "m", "e", "d">>
        S_NoDescription ==
            <<"N", "o", " ", "d", "e", "s", "c", "r", "i", "p", "t", "i", "o", "n">>
        content == value_of(file)
        lines == str_lines(content)
        closing_index == position_of_rule(Tail(lines))
        front_matter ==
            IF Len(lines) >= 3 /\ trim(lines[1]) = <<"-", "-", "-">>
               /\ closing_index # None
            THEN yaml_front_matter(SubSeq(lines, 2, unwrap(closing_index) + 1))
            ELSE Err(<<>>)
        first_line == IF lines = <<>> THEN <<>> ELSE lines[1]
        name == trim(trim_start_matches(first_line, "#"))
        described == {k \in 1..Len(lines) :
                        ~(lines[k] # <<>> /\ lines[k][1] = "#") /\ trim(lines[k]) # <<>>}
    IN  IF ~file.ok THEN Err(file.err)
        ELSE IF front_matter.ok
        THEN Ok([name |-> value_of(front_matter).name,
                 description |-> value_of(front_matter).description,
                 version |-> value_of(front_matter).version,
                 location |-> Some(path)])
        ELSE Ok([name |-> IF name = <<>> THEN S_Unnamed ELSE name,
                 description |-> IF described = {} THEN S_NoDescription
                                 ELSE trim(lines[CHOOSE k \in described :
                                                    \A j \in described : k <= j]),
                 version |-> default_version,
                 location |-> Some(path)])

(* load_skill: dir.skill_md is None when the directory has no SKILL.md *)
load_skill(path, dir) ==
    IF dir.skill_md # None
    THEN load_skill_md(path \o <<"/">> \o S_SkillMd, unwrap(dir.skill_md))
    ELSE Err(<<"N", "o", " ">> \o S_SkillMd)

(* a filter that lets names with two dots pass *)
is_unsafe_skill_name_without_dots(name) ==
    \/ contains_char(name, "/")
    \/ contains_char(name, "\\")
    \/ contains_char(name, Nul)
    \/ trim(name) = <<>>

is_unsafe_skill_name(name) ==
    \/ str_find(name, <<".", ".">>) # None
    \/ contains_char(name, "/")
    \/ contains_char(name, "\\")
    \/ contains_char(name, Nul)
    \/ trim(name) = <<>>

(* HashMap::insert under the name of the skill *)
SkillRegistry_insert(skills, skill) ==
    {s \in skills : s.name # skill.name} \cup {skill}

(* SkillRegistry::get *)
SkillRegistry_get(skills, name) ==
    IF \E s \in skills : s.name = name
    THEN Some(CHOOSE s \in skills : s.name = name) ELSE None

(* SkillRegistry::count *)
SkillRegistry_count(skills) == Cardinality(skills)

(* skills_dir *)
skills_dir(workspace) == workspace \o <<"/", "s", "k", "i", "l", "l", "s">>

(* the for loop of load_skills over the entries that read_dir yields: the  *)
(* skills when it ends, or the error of the entry that could not be read    *)
RECURSIVE load_entries(_, _, _)
load_entries(skills_path, entries, skills) ==
    IF entries = <<>> THEN Ok(skills)
    ELSE IF ~Head(entries).ok THEN Err(Head(entries).err)
    ELSE LET entry == value_of(Head(entries))
             path == skills_path \o <<"/">> \o entry.name
             loaded == load_skill(path, entry)
         IN  IF ~entry.is_dir THEN load_entries(skills_path, Tail(entries), skills)
             ELSE IF is_unsafe_skill_name(entry.name)
             THEN load_entries(skills_path, Tail(entries), skills)
             ELSE IF loaded.ok
             THEN load_entries(skills_path, Tail(entries),
                               SkillRegistry_insert(skills, value_of(loaded)))
             ELSE load_entries(skills_path, Tail(entries), skills)

(* load_skills on the registry that holds skills; directory is None when   *)
(* the skills directory does not exist, else what read_dir returns          *)
load_skills(skills, workspace, directory) ==
    IF directory = None THEN Ok(skills)
    ELSE IF ~unwrap(directory).ok THEN Err(unwrap(directory).err)
    ELSE load_entries(skills_dir(workspace), value_of(unwrap(directory)), skills)

(* the SKILL.md files of the skills directories: a heading and a           *)
(* description, front matter with the same name, an empty file, front       *)
(* matter without description, and a file that cannot be read               *)
SkillFiles ==
    LET S_Heading == <<"#", " ", "g", "i", "t", "\n", "\n", "v", "c", "s", "\n">>
        S_FrontMatter ==
            <<"-", "-", "-", "\n", "n", "a", "m", "e", ":", " ", "g", "i", "t", "\n",
              "d", "e", "s", "c", "r", "i", "p", "t", "i", "o", "n", ":", " ", "s", "c",
              "m", "\n", "-", "-", "-", "\n", "b", "o", "d", "y", "\n">>
        S_Incomplete ==
            <<"-", "-", "-", "\n", "n", "a", "m", "e", ":", " ", "h", "g", "\r", "\n",
              "-", "-", "-", "\n">>
    IN  [heading |-> Some(Ok(S_Heading)), front |-> Some(Ok(S_FrontMatter)),
         empty |-> Some(Ok(<<>>)), incomplete |-> Some(Ok(S_Incomplete)),
         unreadable |-> Some(Err(T_down)), absent |-> None]

(* what read_dir may yield for one entry: a file, directories with safe    *)
(* and unsafe names and each kind of SKILL.md, or an entry that cannot be   *)
(* read                                                                     *)
DirEntries ==
    LET dir(name, file) == Ok([name |-> name, is_dir |-> TRUE, skill_md |-> file])
    IN  {Ok([name |-> <<"n", "o", "t", "e", "s">>, is_dir |-> FALSE, skill_md |-> None]),
         dir(<<"a">>, SkillFiles.heading),
         dir(<<"b">>, SkillFiles.front),
         dir(<<"c">>, SkillFiles.empty),
         dir(<<"d">>, SkillFiles.incomplete),
         dir(<<"e">>, SkillFiles.unreadable),
         dir(<<"f">>, SkillFiles.absent),
         dir(<<"a", ".", ".", "b">>, SkillFiles.heading),
         dir(<<" ">>, SkillFiles.front),
         dir(<<"x", "\\", "y">>, SkillFiles.heading),
         Err(T_down)}

(* the skills directory: missing, unreadable, or with up to MaxEntries     *)
(* entries of different names in the order read_dir yields them             *)
SkillsDirectories ==
    {None, Some(Err(T_down)), Some(Ok(<<>>))}
    \cup {Some(Ok(entries)) :
            entries \in {es \in SeqsUpTo(DirEntries, MaxEntries) :
                            \A i, j \in 1..Len(es) : i # j => es[i] # es[j]}}

InitSkills ==
    /\ InitAgent({"plain"}, {<<>>}, {T_hi}, {DEFAULT_MAX_HISTORY}, {1}, {Builder(None)},
                 {<<>>})
    /\ ~streaming
    /\ workspace_skills \in SkillsDirectories
    /\ skill_registry = None

(* SkillRegistry::load_from_workspace *)
LoadFromWorkspace ==
    /\ skill_registry = None
    /\ skill_registry' = Some(load_skills({}, context_builder.workspace, workspace_skills))
    /\ UNCHANGED <<config, locals, pc, result, ghosts, stores, memory_entries, script,
                   first, sharing, workspace_skills>>

NextSkills == LoadFromWorkspace

SpecSkills == InitSkills /\ [][NextSkills]_vars

----------------------------------------------------------------------------
(* Properties of loop detection *)

(* all tool calls received so far, in arrival order *)
AllReceived == Flatten(received)

(* calls e-2, e-1 and e of s are identical in name and arguments *)
TripleEndsAt(s, e) ==
    /\ e >= LOOP_DETECTION_THRESHOLD
    /\ e <= Len(s)
    /\ \A d \in 1..(LOOP_DETECTION_THRESHOLD - 1) :
        /\ s[e - d].name = s[e].name
        /\ s[e - d].arguments = s[e].arguments

HasTriple(s) == \E e \in 1..Len(s) : TripleEndsAt(s, e)

(* the position in AllReceived of the last call of turn t *)
TurnEnd(t) == Len(Flatten(SubSeq(received, 1, t)))

(* the process call ended with the loop-detected error *)
LoopAborted ==
    /\ pc = "done"
    /\ is_some(result)
    /\ ~unwrap(result).ok
    /\ starts_with_at(unwrap(result).err, 1, S_LoopA)

(* C1 as stated: whenever the tool calls received so far, in arrival      *)
(* order, contain three consecutive identical calls, the process call has *)
(* been aborted with the loop-detected error, however many calls a turn   *)
(* carries. The loop is checked in the step that receives a turn's calls, *)
(* so an abort in the turn of the third call shows in every state.        *)
C1_AnyTripleAborts == HasTriple(AllReceived) => LoopAborted

(* C1: whenever three consecutive identical calls (name and arguments)    *)
(* have been received and the third of them is followed by at most        *)
(* LOOP_DETECTION_WINDOW - LOOP_DETECTION_THRESHOLD further calls in its  *)
(* own turn, the process call is aborted with the loop-detected error in  *)
(* that very turn: no later turn exists.                                  *)
C1_TripleInWindowAborts ==
    \A t \in 1..Len(received) :
        \A e \in (TurnEnd(t - 1) + 1)..TurnEnd(t) :
            (/\ TripleEndsAt(AllReceived, e)
             /\ TurnEnd(t) - e <= LOOP_DETECTION_WINDOW - LOOP_DETECTION_THRESHOLD)
            => (LoopAborted /\ t = Len(received))

(* three identical calls spread over two turns, aborted in the second *)
C1_Witness ==
    /\ LoopAborted
    /\ Len(received) = 2
    /\ TripleEndsAt(AllReceived, Len(AllReceived))
    /\ Len(received[2]) < LOOP_DETECTION_THRESHOLD

(* C2: the loop-detected error is reported only if the calls received so  *)
(* far contain three consecutive calls identical in name and arguments:   *)
(* two identical calls followed by a different one, or calls that         *)
(* alternate, never abort.                                                *)
C2_AbortOnlyOnTriple == LoopAborted => HasTriple(AllReceived)

(* an alternation long enough to fill the window, not aborted *)
C2_Witness ==
    /\ ~LoopAborted
    /\ Len(AllReceived) > LOOP_DETECTION_WINDOW
    /\ \A i \in 2..Len(AllReceived) : AllReceived[i] # AllReceived[i - 1]
    /\ pc = "dispatch"

----------------------------------------------------------------------------
(* Properties of history compaction *)

IsSummary(m) == m.role = S_assistant /\ starts_with_at(m.content, 1, S_Summary)

(* COMPACT_KEEP_RECENT + 1 non-system messages, one of them a summary *)
CompactedShape(msgs) ==
    /\ non_system_count(msgs) = COMPACT_KEEP_RECENT + 1
    /\ \E i \in 1..Len(msgs) :
        /\ msgs[i].role # S_system
        /\ IsSummary(msgs[i])
        /\ msgs[i].content # <<>>

(* the step after tool dispatch in which compact_history is called *)
CompactionRuns ==
    /\ pc = "dispatch"
    /\ pc' = "loop"
    /\ should_compact_history(messages, max_history)

(* C3 as stated: for every max_history, a compaction that runs because    *)
(* the non-system count exceeds max_history leaves exactly                *)
(* COMPACT_KEEP_RECENT + 1 non-system messages, one of them the summary   *)
(* message, whose content is not empty.                                   *)
C3_EveryCompactionLeaves21 == [][CompactionRuns => CompactedShape(messages')]_vars

(* C3: a compaction that runs on more than COMPACT_KEEP_RECENT non-system *)
(* messages (the count exceeds max_history and COMPACT_KEEP_RECENT)       *)
(* leaves exactly COMPACT_KEEP_RECENT + 1 non-system messages, one of     *)
(* them the summary message, whose content is not empty.                  *)
C3_CompactionOfLongListLeaves21 ==
    [][(CompactionRuns /\ non_system_count(messages) > COMPACT_KEEP_RECENT)
        => CompactedShape(messages')]_vars

(* a turn has ended and left the compacted shape behind *)
C3_Witness ==
    /\ pc = "loop"
    /\ iterations >= 1
    /\ CompactedShape(messages)

(* C4: every tool message of the message list carries a tool_call_id that *)
(* is the id of a ToolCall of an assistant message earlier in the list,   *)
(* also after compactions, when the input history is well-formed or       *)
(* empty.                                                                 *)
C4_ToolMessagesReferToCalls ==
    \A i \in 1..Len(messages) :
        messages[i].role = S_tool =>
            /\ is_some(messages[i].tool_call_id)
            /\ \E j \in 1..(i - 1) :
                /\ messages[j].role = S_assistant
                /\ is_some(messages[j].tool_calls)
                /\ \E k \in 1..Len(unwrap(messages[j].tool_calls)) :
                    unwrap(messages[j].tool_calls)[k].id = unwrap(messages[i].tool_call_id)

----------------------------------------------------------------------------
(* Properties of a turn *)

(* the provider yielded no tool call, no text and no thinking content *)
NoContent(y) ==
    /\ y.tool_calls = <<>>
    /\ (is_some(y.text) => unwrap(y.text) = <<>>)
    /\ y.thinking = <<>>

EndedWithError == pc = "done" /\ is_some(result) /\ ~unwrap(result).ok

(* C5: in both paths, once the provider has yielded a turn with no tool   *)
(* calls and no text (absent or empty, and no thinking content), the      *)
(* process call has ended with an error result, never with a text.        *)
C5_NoContentTurnIsError ==
    (is_some(yielded) /\ NoContent(unwrap(yielded))) => EndedWithError

----------------------------------------------------------------------------
(* Properties of tool dispatch *)

(* the call that dispatch has reached *)
CurrentCall == tool_calls[next_call]

NotFoundText(name) ==
    ToolResult_to_string([success |-> FALSE, output |-> <<>>,
                          error |-> Some(S_NotFoundPre \o name \o S_NotFoundPost)])

ExecutionFailedText(text) ==
    ToolResult_to_string([success |-> FALSE, output |-> <<>>,
                          error |-> Some(S_ExecFailed \o text)])

(* one more tool message, keyed to the current call, and dispatch goes on *)
AppendsToolMessage(content) ==
    /\ messages' = Append(messages,
                          [role |-> S_tool, content |-> content, tool_calls |-> None,
                           tool_call_id |-> Some(CurrentCall.id)])
    /\ pc' = "dispatch"
    /\ next_call' = next_call + 1
    /\ result' = NoResult

(* C6: the execution of a call to a tool that is not registered yields a  *)
(* ToolResult with success false and error Tool '<name>' not found; the   *)
(* loop appends it as the tool message of that call and goes on with      *)
(* dispatch instead of ending the process call.                           *)
C6_UnknownToolIsAToolMessage ==
    [][(pc = "executing" /\ CurrentCall.name \notin tools)
        => AppendsToolMessage(NotFoundText(CurrentCall.name))]_vars

(* the not-found message, then the message of the next call of the same   *)
(* turn, then a further provider call                                     *)
C6_Witness ==
    /\ provider_calls >= 2
    /\ \E i \in 1..(Len(messages) - 1) :
        /\ messages[i].role = S_tool
        /\ messages[i].content = NotFoundText(N_nope)
        /\ messages[i + 1].role = S_tool

(* C7: the execution of a call to a registered tool always yields a       *)
(* ToolResult: the tool's own result, or, when the tool's execute fails,  *)
(* success false with error Execution failed: <message>; either way the   *)
(* loop appends it as the tool message of the call and the process call   *)
(* goes on.                                                               *)
C7_ToolFailureIsAToolMessage ==
    [][(pc = "executing" /\ CurrentCall.name \in tools)
        => \E outcome \in ToolExecuteOutcomes(CurrentCall.name) :
            AppendsToolMessage(IF outcome.ok
                               THEN ToolResult_to_string(value_of(outcome))
                               ELSE ExecutionFailedText(outcome.err))]_vars

(* the message of a failed execution, and a provider call after it *)
C7_Witness ==
    /\ provider_calls >= 2
    /\ \E i \in 1..Len(messages) :
        /\ messages[i].role = S_tool
        /\ messages[i].content = ExecutionFailedText(T_boom)

(* the message list ends with the assistant message of this turn and the  *)
(* tool messages of its first n calls, in order                           *)
TailIs(n) ==
    /\ Len(messages) >= n + 1
    /\ messages[Len(messages) - n] =
            [role |-> S_assistant, content |-> full_response,
             tool_calls |-> Some(tool_calls), tool_call_id |-> None]
    /\ \A j \in 1..n :
        /\ messages[Len(messages) - n + j].role = S_tool
        /\ messages[Len(messages) - n + j].tool_call_id = Some(tool_calls[j].id)

(* the calls of this turn passed to ToolRegistry::execute *)
ExecutedThisTurn == executed[Len(executed)]

HasBadArguments(tool_call) == ~serde_json_from_str(tool_call.arguments).ok

ParseFailed ==
    /\ EndedWithError
    /\ starts_with_at(unwrap(result).err, 1, S_ParseFail)

(* C8: in both paths, when dispatch reaches a call whose arguments are    *)
(* not valid JSON, the process call ends with the parse error in that     *)
(* step; that call and the calls after it are never passed to execute, no *)
(* tool message is appended for them and the provider is not called       *)
(* again.                                                                 *)
C8_BadArgumentsEndTheCall ==
    /\ [][(pc = "dispatch" /\ next_call <= Len(tool_calls)
           /\ HasBadArguments(CurrentCall))
          => /\ pc' = "done"
             /\ result' = Some(Err(S_ParseFail \o CurrentCall.name \o S_ColonSpace
                                   \o S_SerdeError))
             /\ UNCHANGED <<messages, executed, provider_calls>>]_vars
    /\ [](ParseFailed
          => /\ HasBadArguments(CurrentCall)
             /\ TailIs(next_call - 1)
             /\ ExecutedThisTurn = SubSeq(tool_calls, 1, next_call - 1)
             /\ ~ENABLED Next)

(* a bad call between two good ones has ended the process call *)
C8_Witness ==
    /\ ParseFailed
    /\ next_call >= 2
    /\ next_call < Len(tool_calls)

(* C9: the provider is called at most max_iterations times in the main    *)
(* loop, never when max_iterations is 0; when the loop has used them up   *)
(* the process call returns, and if every one of those turns yielded tool *)
(* calls and no error ended the call, the result is the text              *)
(* Max iterations reached.                                                *)
C9_AtMostMaxIterationsTurns ==
    /\ provider_calls <= max_iterations
    /\ (pc = "loop" /\ iterations >= max_iterations) => ENABLED MaxIterationsReached
    /\ (/\ pc = "done"
        /\ Len(received) = max_iterations
        /\ ~EndedWithError)
       => result = Some(Ok(S_MaxIter))

(* several turns with tool calls, then the text *)
C9_Witness ==
    /\ result = Some(Ok(S_MaxIter))
    /\ max_iterations >= 2
    /\ provider_calls = max_iterations
    /\ Len(received) = max_iterations

----------------------------------------------------------------------------
(* Properties of the shared registry *)

(* C11: the registry's Mutex is held only for the lookup, the insert or the *)
(* snapshot, never while a tool's execute runs; so whatever executions are  *)
(* in progress, and even if they never return, a register, get_specs or     *)
(* execute of another task, and a call a tool makes back into the registry  *)
(* from its own execute, gets the lock and returns. *)
C11_LockNeverHeldAcrossExecute ==
    /\ [](\A t \in Tasks : lock = Some(t) => tasks[t].pc = "locked")
    /\ \A t \in Tasks : (tasks[t].pc = "lock") ~> (tasks[t].pc \in {"idle", "running"})

(* one execution is still in progress after it has called back into the     *)
(* registry, and another task has finished an operation it started meanwhile *)
C11_Witness ==
    \E t \in Tasks : \E u \in Tasks \ {t} :
        /\ tasks[t].pc = "running"
        /\ tasks[t].callbacks = 1
        /\ tasks[u].pc = "idle"
        /\ tasks[u].overlapped
        /\ is_some(tasks[u].result)

----------------------------------------------------------------------------
(* Properties of two equal calls *)

(* both calls have ended *)
BothEnded == pc = "done" /\ first # None

(* C12: the stores are detached and never awaited, so a call returns the    *)
(* same result, builds the same message list and executes the same tools    *)
(* whether each store succeeds, fails or never completes: two calls on the  *)
(* same path with the same provider answers end alike. *)
C12_StoresDoNotChangeTheCall ==
    (BothEnded /\ unwrap(first).streaming = streaming) =>
        /\ unwrap(first).result = result
        /\ unwrap(first).messages = messages
        /\ unwrap(first).executed = executed

----------------------------------------------------------------------------
(* Properties of the summary fallback *)

(* the run compact_history replaces: the non-system messages before the    *)
(* COMPACT_KEEP_RECENT most recent                                          *)
OlderRun(msgs) ==
    SubSeq(msgs, (IF has_system(msgs) THEN 1 ELSE 0) + 1, Len(msgs) - COMPACT_KEEP_RECENT)

(* the summarize call of this step failed or came back without text *)
SummarizeFailed ==
    /\ CompactionRuns
    /\ is_some(summarize_outcome')
    /\ ~unwrap(summarize_outcome').ok \/ value_of(unwrap(summarize_outcome')).text = None

(* the list after a compaction whose summary is the truncated transcript *)
FallbackCompaction(msgs) ==
    SubSeq(msgs, 1, IF has_system(msgs) THEN 1 ELSE 0)
    \o <<ChatMessage_assistant(
            S_Summary \o trim(truncate_transcript(transcript_lines(OlderRun(msgs)))))>>
    \o SubSeq(msgs, Len(msgs) - COMPACT_KEEP_RECENT + 1, Len(msgs))

(* C13: when the provider call of summarize fails or returns no text, the  *)
(* compaction still completes, with the character-truncated transcript of   *)
(* the older run as the summary, and the call goes on to the next turn      *)
(* without an error. *)
C13_SummarizeFailureFallsBack ==
    [][SummarizeFailed =>
        /\ messages' = FallbackCompaction(messages)
        /\ pc' = "loop"
        /\ result' = NoResult]_vars

(* a compaction has fallen back on a transcript that had to be truncated *)
C13_Witness ==
    /\ pc = "loop"
    /\ is_some(summarize_outcome)
    /\ ~unwrap(summarize_outcome).ok
    /\ \E i \in 1..Len(messages) :
        /\ IsSummary(messages[i])
        /\ Len(messages[i].content) > COMPACTION_MAX_SUMMARY_CHARS

----------------------------------------------------------------------------
(* Properties of the window of loop detection *)

(* the LOOP_DETECTION_THRESHOLD signatures of w that end at e are equal *)
RunEndsAt(w, e) ==
    /\ e >= LOOP_DETECTION_THRESHOLD
    /\ e <= Len(w)
    /\ \A d \in 1..(LOOP_DETECTION_THRESHOLD - 1) : w[e - d] = w[e]

(* C14 as stated: the call is aborted with the loop-detected error only if *)
(* the three most recent signatures of the window, after the turn's calls   *)
(* have been pushed, are identical: a run elsewhere in the window does not  *)
(* abort. *)
C14_AbortOnlyOnNewestThree ==
    LoopAborted => RunEndsAt(recent_tool_calls, Len(recent_tool_calls))

(* C14: the call is aborted with the loop-detected error exactly when the  *)
(* window, after the turn's calls have been pushed, holds three consecutive *)
(* identical signatures anywhere in it. *)
C14_AbortExactlyOnRunInWindow ==
    LoopAborted <=>
        \E e \in 1..Len(recent_tool_calls) : RunEndsAt(recent_tool_calls, e)

(* an abort on a run that is followed by a different call in the window *)
C14_Witness ==
    /\ LoopAborted
    /\ ~RunEndsAt(recent_tool_calls, Len(recent_tool_calls))
    /\ RunEndsAt(recent_tool_calls, Len(recent_tool_calls) - 1)

----------------------------------------------------------------------------
(* Properties of the ids of recovered tool calls *)

(* the tool calls of this turn were recovered from the text of the response *)
RecoveredTurn ==
    /\ ~streaming
    /\ is_some(yielded)
    /\ unwrap(yielded).tool_calls = <<>>
    /\ tool_calls # <<>>

(* every call the fallback parser recovers from any text of TaggedTexts *)
RecoveredFromTaggedTexts ==
    UNION {{parse_tool_calls_fallback(text).calls[j] :
                j \in 1..Len(parse_tool_calls_fallback(text).calls)} :
           text \in TaggedTexts}

(* C15: the tool calls of one turn have pairwise distinct ids, also when   *)
(* the fallback parser recovered them from one response, for example two    *)
(* calls with the same arguments or two tools called with the same          *)
(* arguments. *)
C15_RecoveredIdsAreDistinct ==
    RecoveredTurn =>
        \A i \in 1..Len(tool_calls) : \A j \in 1..Len(tool_calls) :
            i # j => tool_calls[i].id # tool_calls[j].id

(* C16: the id of a recovered call is a function of its arguments value    *)
(* alone: it equals the id of every call with equal arguments that the      *)
(* parser recovers from this response or from any other response, whatever  *)
(* the tool, the tag, the text before it or its position, and parsing the   *)
(* response once more gives the same calls. *)
C16_RecoveredIdDependsOnArgumentsOnly ==
    RecoveredTurn =>
        /\ parse_tool_calls_fallback(unwrap(unwrap(yielded).text)).calls = tool_calls
        /\ \A i \in 1..Len(tool_calls) : \A other \in RecoveredFromTaggedTexts :
                tool_calls[i].arguments = other.arguments => tool_calls[i].id = other.id

(* two tools recovered from two blocks of different tags, called with the  *)
(* same arguments spelled differently, under one id *)
C16_Witness ==
    /\ RecoveredTurn
    /\ Len(tool_calls) = 2
    /\ tool_calls[1].name # tool_calls[2].name
    /\ tool_calls[1].id = tool_calls[2].id
    /\ tool_calls[1].arguments = A_one
    /\ is_some(str_find(unwrap(unwrap(yielded).text), TOOL_CALL_OPEN_TAGS[3]))
    /\ pc = "dispatch"

----------------------------------------------------------------------------
(* Properties of the message list of a call *)

(* the step that builds the message list of the call *)
MessagesBuilt == pc = "build" /\ pc' = "loop"

(* C17: for every history and current message, build_messages returns one  *)
(* system message, then the elements of history unchanged and in the same   *)
(* order, then exactly one user message whose content is the current        *)
(* message; the length of the list is Len(history) + 2. *)
C17_BuildMessagesShape ==
    [][MessagesBuilt =>
        /\ Len(messages') = Len(history) + 2
        /\ messages'[1].role = S_system
        /\ messages'[1].tool_calls = None /\ messages'[1].tool_call_id = None
        /\ SubSeq(messages', 2, Len(history) + 1) = history
        /\ messages'[Len(history) + 2] = ChatMessage_user(message)]_vars

(* a list built from a history that brings a system message of its own and *)
(* from a padded current message *)
C17_Witness ==
    /\ pc = "loop" /\ provider_calls = 0 /\ yielded = None
    /\ Len(history) = MaxHistory
    /\ history[1].role = S_system
    /\ message # trim(message)
    /\ Len(messages) = MaxHistory + 2

----------------------------------------------------------------------------
(* Properties of a turn of thinking only *)

(* the call ended on a turn whose stream carried thinking content and      *)
(* yielded neither response text nor a tool call                            *)
ThinkingOnlyTurnEnded ==
    /\ streaming
    /\ pc = "done"
    /\ is_some(yielded)
    /\ unwrap(yielded).text = None
    /\ unwrap(yielded).tool_calls = <<>>
    /\ thought # <<>>

(* the report of an incomplete response: the answer that quotes the        *)
(* thinking, with no assistant message added for it                         *)
IncompleteResponseReported ==
    LET S_Thinking ==
            <<"I", " ", "w", "a", "s", " ", "t", "h", "i", "n", "k", "i", "n", "g", ":",
              " ">>
    IN
    /\ is_some(result)
    /\ unwrap(result).ok
    /\ starts_with_at(value_of(unwrap(result)), 1, S_Thinking \o thinking_excerpt(thought))
    /\ messages[Len(messages)].role # S_assistant

(* C18: in the streaming path, a turn whose stream carries thinking        *)
(* content but yields no response text and no tool call is reported as an   *)
(* incomplete response, whatever the order in which the Thinking events     *)
(* and the Token events, empty ones included, arrive before Done. *)
C18_ThinkingOnlyIsIncomplete == ThinkingOnlyTurnEnded => IncompleteResponseReported

----------------------------------------------------------------------------
(* Properties of the frame of a compaction *)

(* the last n elements of a list *)
MostRecent(msgs, n) == SubSeq(msgs, Len(msgs) - n + 1, Len(msgs))

(* C20: compact_history changes only the older run of messages: the        *)
(* leading system message and the most recent COMPACT_KEEP_RECENT           *)
(* non-system messages (all of them when there are fewer) stay as they are  *)
(* and in their order, and the older run between them, when there is one,   *)
(* is replaced at its position by exactly one assistant message whose       *)
(* content starts with the summary marker; with no older run the list stays *)
(* as it is. *)
C20_CompactionChangesOnlyTheOlderRun ==
    [][CompactionRuns =>
        LET count == non_system_count(messages)
            keep == IF count > COMPACT_KEEP_RECENT THEN COMPACT_KEEP_RECENT ELSE count
        IN  /\ has_system(messages)
            /\ messages'[1] = messages[1]
            /\ MostRecent(messages', keep) = MostRecent(messages, keep)
            /\ IF count > COMPACT_KEEP_RECENT
               THEN /\ Len(messages') = 1 + 1 + COMPACT_KEEP_RECENT
                    /\ messages'[2].role = S_assistant
                    /\ messages'[2].tool_calls = None
                    /\ messages'[2].tool_call_id = None
                    /\ starts_with_at(messages'[2].content, 1, S_Summary)
               ELSE messages' = messages]_vars

(* a compaction has replaced an older run of more than one message by the  *)
(* summary the provider wrote, in front of the recent messages, the last of *)
(* them the result of the turn's tool call *)
C20_Witness ==
    /\ pc = "loop"
    /\ is_some(summarize_outcome)
    /\ unwrap(summarize_outcome).ok
    /\ is_some(value_of(unwrap(summarize_outcome)).text)
    /\ Len(history) + 3 - COMPACT_KEEP_RECENT > 1
    /\ Len(messages) = COMPACT_KEEP_RECENT + 2
    /\ messages[1].role = S_system
    /\ starts_with_at(messages[2].content, 1, S_Summary)
    /\ messages[Len(messages)].role = S_tool

----------------------------------------------------------------------------
(* Properties of the two paths *)

(* both calls have ended, one on each path, and the memory recalled the    *)
(* same entries for both, so that both began with the same system message   *)
BothPathsEnded ==
    /\ BothEnded
    /\ unwrap(first).streaming # streaming
    /\ unwrap(first).messages[1] = messages[1]

(* the two calls executed the same tools in the same order, built the same *)
(* message list and returned the same result                                *)
PathsAgree ==
    /\ unwrap(first).executed = executed
    /\ unwrap(first).messages = messages
    /\ unwrap(first).result = result

(* every answer of the script is structured tool calls, with or without    *)
(* text, or plain text                                                      *)
ScriptOfCallsOrText ==
    \A n \in 1..Len(script) : script[n].tool_calls # <<>> \/ is_some(script[n].text)

(* the plain text answers of the script are not empty and have no white    *)
(* space at either end                                                      *)
PlainTextIsTrimmed ==
    \A n \in 1..Len(script) :
        script[n].tool_calls = <<>> =>
            /\ is_some(script[n].text)
            /\ unwrap(script[n].text) # <<>>
            /\ trim(unwrap(script[n].text)) = unwrap(script[n].text)

----------------------------------------------------------------------------
(* Properties of the transcript of a compaction *)

(* compact_history is about to be called on a list with an older run *)
CompactionDue ==
    /\ pc = "dispatch"
    /\ next_call > Len(tool_calls)
    /\ should_compact_history(messages, max_history)
    /\ non_system_count(messages) > COMPACT_KEEP_RECENT

(* C21: the transcript handed to the summarizer is the full rendering,    *)
(* one line of role and content for each compacted message, when that      *)
(* rendering has at most COMPACTION_MAX_SOURCE_CHARS characters, and       *)
(* otherwise the first COMPACTION_MAX_SOURCE_CHARS characters of it. *)
C21_TranscriptTruncatedToSourceSize ==
    CompactionDue =>
        LET rendering == transcript_lines(OlderRun(messages))
        IN  build_transcript(OlderRun(messages)) =
                IF Len(rendering) <= COMPACTION_MAX_SOURCE_CHARS THEN rendering
                ELSE SubSeq(rendering, 1, COMPACTION_MAX_SOURCE_CHARS)

----------------------------------------------------------------------------
(* Properties of the text the fallback parser returns *)

(* the text of the response the provider gave in this turn *)
ResponseText == unwrap(unwrap(yielded).text)

(* the call ended on a response without structured tool calls whose first  *)
(* opening tag is never closed                                              *)
UnclosedTagTurnEnded ==
    /\ ~streaming
    /\ pc = "done"
    /\ is_some(yielded)
    /\ unwrap(yielded).tool_calls = <<>>
    /\ is_some(unwrap(yielded).text)
    /\ is_some(find_first_tag(ResponseText, TOOL_CALL_OPEN_TAGS))
    /\ \A k \in 1..Len(TOOL_CALL_CLOSE_TAGS) :
            str_find(ResponseText, TOOL_CALL_CLOSE_TAGS[k]) = None

(* C22: when the fallback parser meets an opening tag that is never        *)
(* closed it stops and produces no call from the tag, and the text it       *)
(* returns is the plain text before the tag followed by the text from the   *)
(* opening tag onward, every character outside a closed pair once. *)
C22_UnclosedTagKeepsEachCharacterOnce ==
    UnclosedTagTurnEnded =>
        LET at == unwrap(find_first_tag(ResponseText, TOOL_CALL_OPEN_TAGS)).idx
            before == SubSeq(ResponseText, 1, at)
            onward == SubSeq(ResponseText, at + 1, Len(ResponseText))
        IN  /\ tool_calls = <<>>
            /\ result = Some(Ok(join(push_trimmed(push_trimmed(<<>>, before), onward),
                                     <<"\n">>)))

----------------------------------------------------------------------------
(* Properties of the scan for JSON objects *)

(* the lines of a text *)
RECURSIVE lines_of(_)
lines_of(s) ==
    LET nl == str_find(s, <<"\n">>) IN
    IF nl = None THEN <<s>>
    ELSE <<SubSeq(s, 1, unwrap(nl))>> \o lines_of(SubSeq(s, unwrap(nl) + 2, Len(s)))

(* the content of the only tag pair of a text *)
OnlyBlock(text) ==
    LET found == find_first_tag(text, TOOL_CALL_OPEN_TAGS)
        open_tag == unwrap(found).tag
        after_open == SubSeq(text, unwrap(found).idx + Len(open_tag) + 1, Len(text))
        close_tag == unwrap(matching_tool_call_close_tag(open_tag))
        close_idx == str_find(after_open, close_tag)
    IN  IF found = None \/ close_idx = None THEN None
        ELSE IF is_some(find_first_tag(SubSeq(after_open, unwrap(close_idx) + 1,
                                              Len(after_open)), TOOL_CALL_OPEN_TAGS))
        THEN None
        ELSE Some(SubSeq(after_open, 1, unwrap(close_idx)))

(* a line is a well-formed JSON object *)
IsObjectLine(line) ==
    /\ line # <<>>
    /\ line[1] = "{"
    /\ serde_json_from_str(line).ok
    /\ value_of(serde_json_from_str(line)).t = "obj"

(* the content is made of well-formed JSON objects, one on a line, and of  *)
(* lines without braces and quotes                                          *)
ObjectsOnLines(inner) ==
    \A i \in 1..Len(lines_of(inner)) :
        LET line == lines_of(inner)[i] IN
        \/ IsObjectLine(line)
        \/ \A j \in 1..Len(line) : line[j] \notin {"{", "}", "\""}

(* the objects of such a content, in order *)
RECURSIVE objects_of(_)
objects_of(lines) ==
    IF lines = <<>> THEN <<>>
    ELSE (IF IsObjectLine(Head(lines))
          THEN <<value_of(serde_json_from_str(Head(lines)))>> ELSE <<>>)
         \o objects_of(Tail(lines))

(* the response of this turn went through the fallback parser and had one  *)
(* tag pair, whose content was made of well-formed objects                  *)
ObjectsTurnInterpreted ==
    /\ ~streaming
    /\ pc \in {"dispatch", "done"}
    /\ provider_calls = 1
    /\ next_call = 1
    /\ is_some(yielded)
    /\ unwrap(yielded).tool_calls = <<>>
    /\ is_some(unwrap(yielded).text)
    /\ is_some(OnlyBlock(ResponseText))
    /\ ObjectsOnLines(unwrap(OnlyBlock(ResponseText)))

(* C23: for tag content made of well-formed JSON objects separated by text *)
(* without braces or quotes, every object is extracted, in order, also the  *)
(* objects whose strings hold braces, escaped quotes or escaped             *)
(* backslashes, so that the turn has the call of each object. *)
C23_EveryObjectIsExtracted ==
    ObjectsTurnInterpreted =>
        LET inner == unwrap(OnlyBlock(ResponseText)) IN
        /\ extract_json_values(inner) = objects_of(lines_of(inner))
        /\ tool_calls = parse_tool_call_values(objects_of(lines_of(inner)))

----------------------------------------------------------------------------
(* Properties of the system prompt *)

(* the system prompt of the call, once build_messages has returned *)
PromptBuilt == messages # <<>>

Prompt == messages[1].content

contains(text, pattern) == str_find(text, pattern) # None

(* the bootstrap files that were read *)
FilesRead == {i \in 1..3 : context_builder.files[i] # None}

(* the section of a bootstrap file whose content is shown as body: its    *)
(* header, a blank line, the body, and the separator before the section    *)
(* that follows                                                             *)
ShowsSection(i, body) == contains(Prompt, BOOTSTRAP_FILES[i] \o S_ParaSep \o body \o S_Sep)

EmittedSections(cb, recall) ==
    load_bootstrap_files(cb)
    \o (IF cb.tool_specs = <<>> THEN <<>> ELSE <<get_tool_instructions(cb)>>)
    \o <<get_runtime_context(cb)>>
    \o get_skills_context(cb)
    \o get_memory_context(cb, recall)

(* C25: the system prompt is the emitted sections in the order bootstrap,   *)
(* tool protocol, runtime context, skills, memory, with exactly one         *)
(* separator between adjacent emitted sections; without tool specs the      *)
(* tool-protocol section contributes neither text nor a separator. *)
C25_OnlyEmittedSectionsAreJoined ==
    PromptBuilt =>
        \E recall \in RecallOutcomes(context_builder, <<>>, message) :
            Prompt = join(EmittedSections(context_builder, recall), S_Sep)

(* the same, for the builders that have tool specs *)
C25_WithToolSpecs ==
    PromptBuilt /\ context_builder.tool_specs # <<>> =>
        \E recall \in RecallOutcomes(context_builder, <<>>, message) :
            Prompt = join(EmittedSections(context_builder, recall), S_Sep)

(* the memory section as the last section of the prompt *)
MemoryHeader ==
    <<"#", "#", " ", "R", "e", "l", "e", "v", "a", "n", "t", " ", "M", "e", "m", "o",
      "r", "y">>

MemorySectionPresent == contains(Prompt, S_Sep \o MemoryHeader)

ends_with(text, suffix) ==
    /\ Len(text) >= Len(suffix)
    /\ SubSeq(text, Len(text) - Len(suffix) + 1, Len(text)) = suffix

(* the recalled entries that have no score or a score of at least 0.4 *)
Surviving(entries) ==
    SelectSeq(entries, LAMBDA e : e.score = None
                                  \/ unwrap(e.score) >= MEMORY_MIN_RELEVANCE_SCORE)

(* the section that lists one bullet for each of the entries *)
MemorySection(entries) ==
    join(<<MemoryHeader>> \o [i \in 1..Len(entries) |-> <<"-", " ">> \o entries[i].content],
         S_ParaSep)

(* the prompt of a builder with a memory, after the recall *)
RecallAnswered == PromptBuilt /\ recalled # None

(* C26 as stated: with a memory configured, the memory section is in the    *)
(* prompt if and only if recall succeeded and some recalled entry has no    *)
(* score or a score of at least 0.4, and it then lists one bullet for each  *)
(* surviving entry; a failed recall only leaves the section out. *)
C26_OneBulletPerSurvivingEntry ==
    RecallAnswered =>
        LET recall == unwrap(recalled)
            surviving == IF recall.ok THEN Surviving(value_of(recall)) ELSE <<>>
        IN  /\ MemorySectionPresent <=> surviving # <<>>
            /\ MemorySectionPresent =>
                   ends_with(Prompt, S_Sep \o MemorySection(surviving))

(* C26, amended: the section is present under the same condition, and it   *)
(* lists one bullet for each surviving entry whose content is not empty; a  *)
(* surviving entry without content has no bullet. *)
C26_OneBulletPerSurvivingEntryWithContent ==
    RecallAnswered =>
        LET recall == unwrap(recalled)
            surviving == IF recall.ok THEN Surviving(value_of(recall)) ELSE <<>>
        IN  /\ MemorySectionPresent <=> surviving # <<>>
            /\ MemorySectionPresent =>
                   ends_with(Prompt,
                             S_Sep \o MemorySection(SelectSeq(surviving,
                                                        LAMBDA e : e.content # <<>>)))

(* a recall of two entries, one at the minimum score and one below it: the *)
(* section is present with the single bullet of the first                   *)
C26_Witness ==
    /\ RecallAnswered
    /\ unwrap(recalled).ok
    /\ Len(value_of(unwrap(recalled))) = 2
    /\ Len(Surviving(value_of(unwrap(recalled)))) = 1
    /\ \E e \in ScoredEntries :
        /\ e.score = Some(MEMORY_MIN_RELEVANCE_SCORE)
        /\ Surviving(value_of(unwrap(recalled))) = <<e>>
    /\ ends_with(Prompt, S_Sep \o MemorySection(Surviving(value_of(unwrap(recalled)))))

(* a failed recall: the prompt is built without the section *)
C26_WitnessRecallFailed ==
    RecallAnswered /\ ~unwrap(recalled).ok /\ ~MemorySectionPresent

----------------------------------------------------------------------------
(* Properties of the tools of a turn *)

(* the names of the tools that the tool-protocol section of the prompt    *)
(* lists, each as a name between asterisks and a colon                      *)
ListedTools ==
    {name \in {N_sh, N_echo, N_nope} :
        contains(Prompt, <<"*", "*">> \o name \o <<"*", "*", ":", " ">>)}

(* the names of the tool specs in the request of the turn *)
SentTools == {tool.name : tool \in unwrap_or_default(request_tools)}

(* the request of a turn was sent; the registry is never empty here *)
RequestSent == PromptBuilt /\ request_tools # None

(* the context builder took its tool specs from the registry, as main does *)
BuiltFromRegistry ==
    {context_builder.tool_specs[i] : i \in DOMAIN context_builder.tool_specs}
        = ToolRegistry_get_specs(Registry)

(* C30: in every turn the set of tools listed in the tool-protocol section  *)
(* of the system prompt equals the set of tool specs sent to the provider   *)
(* for that turn, also when tools are registered in the registry after the  *)
(* context builder was constructed. *)
C30_ListedToolsAreSentTools ==
    RequestSent /\ BuiltFromRegistry => ListedTools = SentTools

----------------------------------------------------------------------------
(* Properties of the prescribed tool_call format *)

ToolCallOpen == <<"<", "t", "o", "o", "l", "_", "c", "a", "l", "l", ">">>
ToolCallClose == <<"<", "/", "t", "o", "o", "l", "_", "c", "a", "l", "l", ">">>

(* the parts of a text of the form T1 <tool_call>J</tool_call> T2 *)
PartsOf(text) ==
    LET open == str_find(text, ToolCallOpen)
        close == str_find(text, ToolCallClose)
    IN  IF open = None \/ close = None \/ unwrap(close) < unwrap(open) THEN None
        ELSE Some([T1 |-> SubSeq(text, 1, unwrap(open)),
                   J |-> SubSeq(text, unwrap(open) + Len(ToolCallOpen) + 1, unwrap(close)),
                   T2 |-> SubSeq(text, unwrap(close) + Len(ToolCallClose) + 1,
                                 Len(text))])

NoTag(text) == \A i \in 1..Len(text) : text[i] \notin {"<", ">"}

(* the response of this turn went through the fallback parser and was of   *)
(* that form, J one valid object with a name and arguments                  *)
ToolCallTurnInterpreted ==
    /\ ~streaming
    /\ pc \in {"dispatch", "done"}
    /\ provider_calls = 1
    /\ next_call = 1
    /\ is_some(yielded)
    /\ unwrap(yielded).tool_calls = <<>>
    /\ is_some(unwrap(yielded).text)
    /\ is_some(PartsOf(ResponseText))
    /\ LET parts == unwrap(PartsOf(ResponseText)) IN
       /\ NoTag(parts.T1) /\ NoTag(parts.T2) /\ NoTag(parts.J)
       /\ IsObjectLine(trim(parts.J))
       /\ parse_tool_call_value(value_of(serde_json_from_str(trim(parts.J)))) # None

(* C29: for a response T1 <tool_call>J</tool_call> T2 with a valid object  *)
(* J and no tags in T1 and T2, parse_tool_calls_fallback returns exactly    *)
(* one call and a text made only of the trimmed T1 and T2, empty when both  *)
(* are blank: no character of the tags leaks into the text. *)
C29_NoTagCharacterLeaksIntoText ==
    ToolCallTurnInterpreted =>
        LET parts == unwrap(PartsOf(ResponseText)) IN
        /\ Len(tool_calls) = 1
        /\ full_response = join(push_trimmed(push_trimmed(<<>>, parts.T1), parts.T2),
                                <<"\n">>)

(* the part of C29 about the call: exactly one call is returned *)
C29_ExactlyOneCall == ToolCallTurnInterpreted => Len(tool_calls) = 1

----------------------------------------------------------------------------
(* Properties of the skill registry *)

(* load_from_workspace has returned *)
SkillsLoaded == skill_registry # None

LoadResult == unwrap(skill_registry)

(* the directories among the entries of the skills directory *)
SkillDirectories ==
    IF workspace_skills = None \/ ~unwrap(workspace_skills).ok THEN {}
    ELSE LET entries == value_of(unwrap(workspace_skills)) IN
         {value_of(entries[i]) : i \in {k \in 1..Len(entries) : entries[k].ok}}
         \cap {e \in {value_of(r) : r \in {x \in DirEntries : x.ok}} : e.is_dir}

(* the name has two dots in a row, a slash, a backslash or a NUL character, *)
(* or is blank                                                              *)
UnsafeName(name) ==
    \/ \E i \in 1..(Len(name) - 1) : name[i] = "." /\ name[i + 1] = "."
    \/ \E i \in 1..Len(name) : name[i] \in {"/", "\\", Nul}
    \/ \A i \in 1..Len(name) : name[i] \in {" ", "\t", "\n", "\r"}

(* the directory has a SKILL.md that can be read *)
Loadable(dir) == dir.skill_md # None /\ unwrap(dir.skill_md).ok

(* the path of the SKILL.md of a directory of the skills directory *)
SkillMdOf(dir) ==
    context_builder.workspace \o <<"/", "s", "k", "i", "l", "l", "s", "/">> \o dir.name
    \o <<"/", "S", "K", "I", "L", "L", ".", "m", "d">>

(* every entry of the skills directory could be read *)
DirectoryRead ==
    \/ workspace_skills = None
    \/ /\ unwrap(workspace_skills).ok
       /\ \A i \in 1..Len(value_of(unwrap(workspace_skills))) :
            value_of(unwrap(workspace_skills))[i].ok

(* C27: load_skills never registers a skill from a directory whose name is  *)
(* unsafe or that has no loadable SKILL.md, and such directories, like a    *)
(* missing skills directory, never make the load fail: unless the           *)
(* directory or one of its entries cannot be read, the load returns Ok. *)
C27_UnsafeAndUnloadableAreSkipped ==
    SkillsLoaded =>
        /\ DirectoryRead => LoadResult.ok
        /\ LoadResult.ok =>
            \A skill \in value_of(LoadResult) :
                \E dir \in SkillDirectories :
                    /\ skill.location = Some(SkillMdOf(dir))
                    /\ ~UnsafeName(dir.name)
                    /\ Loadable(dir)

(* a load that met a directory with an unsafe name and a loadable SKILL.md *)
(* and a directory with a safe name: Ok, with the skill of the second only  *)
C27_Witness ==
    /\ SkillsLoaded
    /\ LoadResult.ok
    /\ \E dir \in SkillDirectories : UnsafeName(dir.name) /\ Loadable(dir)
    /\ \E dir \in SkillDirectories :
        /\ ~UnsafeName(dir.name) /\ Loadable(dir)
        /\ {skill.location : skill \in value_of(LoadResult)} = {Some(SkillMdOf(dir))}

(* a load of a workspace without skills directory: Ok and empty *)
C27_WitnessMissingDirectory ==
    SkillsLoaded /\ workspace_skills = None /\ LoadResult = Ok({})

(* the safely named directories with a SKILL.md that can be read *)
SafeSkillDirectories ==
    {dir \in SkillDirectories : ~UnsafeName(dir.name) /\ Loadable(dir)}

(* the name of the skill that the SKILL.md of a directory declares *)
SkillNameOf(dir) == value_of(load_skill_md(SkillMdOf(dir), unwrap(dir.skill_md))).name

(* C28: after load_from_workspace every safely named skill directory that  *)
(* contains a SKILL.md has an entry in the registry, retrievable by its     *)
(* skill name, and count() equals the number of such directories. *)
C28_OneEntryForEachSkillDirectory ==
    SkillsLoaded /\ LoadResult.ok =>
        /\ \A dir \in SafeSkillDirectories :
            /\ SkillRegistry_get(value_of(LoadResult), SkillNameOf(dir)) # None
            /\ unwrap(SkillRegistry_get(value_of(LoadResult), SkillNameOf(dir))).location
                   = Some(SkillMdOf(dir))
        /\ SkillRegistry_count(value_of(LoadResult)) = Cardinality(SafeSkillDirectories)

(* the same, for skills directories in which no two directories declare    *)
(* the same skill name                                                      *)
C28_WithDistinctSkillNames ==
    /\ SkillsLoaded /\ LoadResult.ok
    /\ \A d1, d2 \in SafeSkillDirectories : d1 # d2 => SkillNameOf(d1) # SkillNameOf(d2)
    => /\ \A dir \in SafeSkillDirectories :
            /\ SkillRegistry_get(value_of(LoadResult), SkillNameOf(dir)) # None
            /\ unwrap(SkillRegistry_get(value_of(LoadResult), SkillNameOf(dir))).location
                   = Some(SkillMdOf(dir))
       /\ SkillRegistry_count(value_of(LoadResult)) = Cardinality(SafeSkillDirectories)

----------------------------------------------------------------------------
(* Properties of the size of the requests *)

(* a step that sends the request of a turn to the provider *)
ProviderCalled == provider_calls' = provider_calls + 1

RequestBound ==
    IF max_history > COMPACT_KEEP_RECENT + 1 THEN max_history ELSE COMPACT_KEEP_RECENT + 1

(* C31: at every provider call of the main loop after the first one of a  *)
(* process call, the request holds at most                                 *)
(* max(max_history, COMPACT_KEEP_RECENT + 1) non-system messages, however   *)
(* many tool calls the turns before carried. *)
C31_LaterRequestsAreBounded ==
    [][(ProviderCalled /\ provider_calls >= 1)
        => non_system_count(messages) <= RequestBound]_vars

(* a second provider call in a process call whose first request was over   *)
(* the bound, because the history of the caller was                         *)
C31_Witness ==
    /\ provider_calls = 2
    /\ Len(history) + 1 > RequestBound

----------------------------------------------------------------------------
(* Properties of the order of loop detection *)

(* the step in which the loop-detected abort fires *)
AbortFires == ~LoopAborted /\ LoopAborted'

(* C32: loop detection runs before anything else of a turn with tool       *)
(* calls: when the abort fires, none of the calls of the turn has been      *)
(* parsed or passed to ToolRegistry::execute, and neither the assistant     *)
(* message of the turn nor a tool message has been appended. *)
C32_AbortComesBeforeDispatch ==
    [][AbortFires =>
        /\ messages' = messages
        /\ executed' = executed
        /\ Len(received') = Len(executed') + 1
        /\ pc' = "done"
        /\ next_call' = 1]_vars

(* the abort fired in a turn that came after a turn whose calls were       *)
(* executed                                                                 *)
C32_Witness ==
    /\ LoopAborted
    /\ Len(received) >= 2
    /\ Len(executed) = Len(received) - 1
    /\ executed[Len(executed)] = received[Len(executed)]

----------------------------------------------------------------------------
(* Properties of termination *)

(* the process call has returned *)
Returned == pc = "done" /\ is_some(result)

(* C33: when every provider call, tool execution and memory recall         *)
(* returns, every process call reaches a terminal outcome (the final text,  *)
(* Max iterations reached, or an error) after at most max_iterations        *)
(* turns; neither tool dispatch nor repeated compaction keeps it running.   *)
C33_EveryCallReturns ==
    /\ [](provider_calls <= max_iterations /\ iterations <= max_iterations)
    /\ <>[]Returned

(* a call that returned after max_iterations turns with tool calls, at     *)
(* least two of them, whose history was compacted *)
C33_Witness ==
    /\ Returned
    /\ result = Some(Ok(S_MaxIter))
    /\ max_iterations >= 2
    /\ Len(executed) = max_iterations
    /\ Len(messages) = COMPACT_KEEP_RECENT + 2
    /\ starts_with_at(messages[2].content, 1, S_Summary)

----------------------------------------------------------------------------
(* Properties of the recall and the store of the user message *)

(* the Relevant Memory section of the system prompt of a message list, the *)
(* empty text when there is none                                            *)
MemorySectionOf(msgs) ==
    LET prompt == msgs[1].content
        at == str_find(prompt, S_Sep \o MemoryHeader)
    IN  IF is_some(at) THEN SubSeq(prompt, unwrap(at) + 1, Len(prompt)) ELSE <<>>

(* C34: the store of the user message is spawned and not awaited before    *)
(* the recall of the system prompt runs, and the Relevant Memory section of *)
(* the prompt is the same in every interleaving of the store with that      *)
(* recall: two calls with the same arguments on the same memory carry the   *)
(* same section, whether or not the store of the own user message ended     *)
(* before the recall. *)
C34_MemorySectionSameInEveryInterleaving ==
    BothEnded => MemorySectionOf(unwrap(first).messages) = MemorySectionOf(messages)

----------------------------------------------------------------------------
(* Properties of the excerpt of the thinking content *)

(* the stream of a turn carried thinking content and neither text nor a    *)
(* tool call, and the turn is over                                          *)
ThinkingOnlyTurnOver ==
    /\ streaming
    /\ pc \in {"done", "panicked"}
    /\ is_some(yielded)
    /\ unwrap(yielded).text = None
    /\ unwrap(yielded).tool_calls = <<>>
    /\ thought # <<>>

(* the text is the first characters of the other *)
IsPrefix(text, other) ==
    Len(text) <= Len(other) /\ SubSeq(other, 1, Len(text)) = text

(* what a result that quotes the thinking quotes of it *)
QuotedExcerpt ==
    LET answer == value_of(unwrap(result))
        head == Len(<<"I", " ", "w", "a", "s", " ", "t", "h", "i", "n", "k", "i", "n",
                      "g", ":", " ">>)
        at == str_find(answer, <<".", ".", ".", " ", "b", "u", "t", " ", "d", "i", "d",
                                 "n", "'", "t">>)
    IN  SubSeq(answer, head + 1, unwrap(at))

(* C35: in the streaming path the thinking-only outcome is produced        *)
(* without a crash for every thinking content: the call returns, and when   *)
(* the content is longer than 200 bytes the excerpt of the returned text    *)
(* is the content cut at a character boundary, multi-byte characters        *)
(* included. *)
C35_ThinkingExcerptNeverCrashes ==
    ThinkingOnlyTurnOver =>
        /\ pc = "done"
        /\ is_some(result)
        /\ unwrap(result).ok
        /\ IsPrefix(QuotedExcerpt, thought)
        /\ str_len(thought) > THINKING_EXCERPT_BYTES
           => str_len(QuotedExcerpt) <= THINKING_EXCERPT_BYTES

----------------------------------------------------------------------------
(* Properties of the brace depth *)

(* the depth of the scan of extract_json_values after k characters *)
DepthAfter(text, k) ==
    scan_json_values(text, 1, k,
                     [depth |-> 0, start |-> None, in_string |-> FALSE,
                      escape_next |-> FALSE, values |-> <<>>]).depth

(* the response of this turn went through the fallback parser and had one  *)
(* tag pair, whose content has no escape                                    *)
BlockTurnInterpreted ==
    /\ ~streaming
    /\ pc \in {"dispatch", "done"}
    /\ provider_calls = 1
    /\ next_call = 1
    /\ is_some(yielded)
    /\ unwrap(yielded).tool_calls = <<>>
    /\ is_some(unwrap(yielded).text)
    /\ is_some(OnlyBlock(ResponseText))
    /\ \A j \in 1..Len(ResponseText) : ResponseText[j] # "\\"

(* C36: in extract_json_values the brace depth never drops below zero: an  *)
(* unmatched closing brace, or other unbalanced text, before a well-formed  *)
(* JSON object inside a tag pair does not keep that object or a later one   *)
(* from being extracted. *)
C36_DepthNeverBelowZero ==
    BlockTurnInterpreted =>
        LET inner == unwrap(OnlyBlock(ResponseText))
            lines == lines_of(inner)
            values == extract_json_values(inner)
        IN  /\ \A k \in 0..Len(inner) : DepthAfter(inner, k) >= 0
            /\ \A i \in 1..Len(lines) :
                  IsObjectLine(lines[i])
                  => \E j \in 1..Len(values) :
                        values[j] = value_of(serde_json_from_str(lines[i]))

----------------------------------------------------------------------------
(* Properties of the arguments of recovered calls *)

(* the JSON objects that the text holds between two of its braces *)
SourceObjects(text) ==
    LET opens == {a \in 1..Len(text) : text[a] = "{"}
        closes == {b \in 1..Len(text) : text[b] = "}"}
        spans == {span \in opens \X closes :
                    /\ span[1] < span[2]
                    /\ serde_json_from_str(SubSeq(text, span[1], span[2])).ok}
    IN  {value_of(serde_json_from_str(SubSeq(text, span[1], span[2]))) : span \in spans}

(* the call has the name and the arguments of the object *)
CallOfObject(call, object) ==
    LET name == json_get(object, <<"n", "a", "m", "e">>)
        arguments == json_get(object, <<"a", "r", "g", "u", "m", "e", "n", "t", "s">>)
        parsed == serde_json_from_str(call.arguments)
    IN  /\ is_some(name)
        /\ json_as_str(unwrap(name)) = Some(call.name)
        /\ is_some(arguments)
        /\ parsed.ok
        /\ unwrap(arguments) = value_of(parsed)

(* the call ended on the failure to parse the arguments of a tool call *)
ArgumentsParseFailed ==
    /\ pc = "done"
    /\ is_some(result)
    /\ ~unwrap(result).ok
    /\ starts_with_at(unwrap(result).err, 1, S_ParseFail)

(* C37: every ToolCall the fallback parser produces carries an arguments   *)
(* string that is valid JSON and parses back to the arguments value of the  *)
(* object it was recovered from, so the dispatch of a recovered call never  *)
(* fails with the argument-parse error. *)
C37_RecoveredArgumentsParseBack ==
    RecoveredTurn =>
        /\ \A i \in 1..Len(tool_calls) :
              /\ serde_json_from_str(tool_calls[i].arguments).ok
              /\ \E object \in SourceObjects(ResponseText) :
                    CallOfObject(tool_calls[i], object)
        /\ ~ArgumentsParseFailed

(* a recovered call whose arguments were written with white space in the   *)
(* response has been passed to the registry with the arguments in the       *)
(* compact form *)
C37_Witness ==
    /\ RecoveredTurn
    /\ pc = "executing"
    /\ tool_calls[next_call].arguments = A_one
    /\ ~is_some(str_find(ResponseText, A_one))
    /\ executed[Len(executed)] = <<tool_calls[next_call]>>

----------------------------------------------------------------------------
(* Properties of the stores the loop issues *)

(* the step issues a store *)
StoreIssued == Len(stores') > Len(stores)

IssuedStore == stores'[Len(stores')]

(* the key of a store of this role *)
HasRole(store, role) ==
    store.key = <<"m", "s", "g", "_">> \o role \o <<"_">> \o md5_hex(store.content)

(* the step interprets the response of a turn that goes on to dispatch or  *)
(* ends the call with its text, and the text is not blank                   *)
TurnWithText ==
    /\ Chat \/ StreamDone
    /\ pc' \in {"dispatch", "done"}
    /\ pc' = "done" => (is_some(result') /\ unwrap(result').ok)
    /\ trim(full_response') # <<>>

(* C38: every store the loop issues has non-blank content and the role     *)
(* user or assistant: the user message is stored once, at the start of the  *)
(* call, each non-blank assistant text once in its turn, and no other step  *)
(* stores anything (tool results, the compaction summary and the text Max   *)
(* iterations reached are never stored); without a configured memory no     *)
(* store is issued. *)
C38_StoresAreUserAndAssistantTexts ==
    [][/\ StoreIssued =>
            /\ stores' = Append(stores, IssuedStore)
            /\ context_builder.memory # None
            /\ trim(IssuedStore.content) # <<>>
            /\ IF pc = "ready"
               THEN /\ IssuedStore.content = message
                    /\ HasRole(IssuedStore, <<"u", "s", "e", "r">>)
               ELSE /\ Chat \/ StreamDone
                    /\ IssuedStore.content = full_response'
                    /\ HasRole(IssuedStore, S_assistant)
       /\ (pc = "ready" /\ pc' = "build" /\ context_builder.memory # None
           /\ trim(message) # <<>>) => StoreIssued
       /\ (TurnWithText /\ context_builder.memory # None) => StoreIssued
       /\ context_builder.memory = None => stores' = <<>>]_vars

(* a call with a memory that ran out of iterations after a compaction: the *)
(* user message and the text of one turn are stored, the blank text of the  *)
(* other turn, the tool results and the summary are not *)
C38_Witness ==
    /\ context_builder.memory # None
    /\ pc = "done"
    /\ result = Some(Ok(S_MaxIter))
    /\ Len(executed) = 2
    /\ Len(stores) = 2
    /\ stores[2].content = T_hi
    /\ \E i \in 1..Len(messages) : starts_with_at(messages[i].content, 1, S_Summary)
    /\ \E i \in 1..Len(messages) :
          messages[i].role = S_assistant /\ messages[i].content = T_blank

----------------------------------------------------------------------------
(* Properties of the locals of a call *)

====
